---- MODULE Spec2Model ----
(***************************************************************************)
(* Population plan-score evaluation: the percentile scorer and reference   *)
(* builder of src/src/plan_score_pipeline.py and the stability experiment  *)
(* engine of src/scripts/step3_stability_experiment.py.                    *)
(*                                                                         *)
(* Conventions                                                             *)
(*   text      a sequence of one-character strings; None is the absent     *)
(*             text (Python None), distinct from the empty text << >>      *)
(*   number    an achieved value / goal value is a natural number standing *)
(*             for the float of that value; an optional number is << >>    *)
(*             (None) or <<v>>                                             *)
(*   rational  percentiles, weights and scores are exact fractions <<n,d>> *)
(*             in lowest terms with d > 0 (the code computes them in       *)
(*             binary floating point); NoScore is the absent score         *)
(*   dict      a Python dict is a sequence of <<key, value>> pairs with    *)
(*             distinct keys, in insertion order                           *)
(***************************************************************************)
EXTENDS Integers, Sequences, FiniteSets, TLC

VARIABLES
    sc_pc,          \* scorer harness: "start", "context", "reference"
    sc_context,     \* result of build_constraint_context
    sc_reference,   \* result of build_reference_from_plan_constraints
    sc_query,       \* last compute_percentile call and its result
    sc_plan,        \* last plan vector given to compute_plan_score
    sc_score        \* its result

sc_vars == <<sc_pc, sc_context, sc_reference, sc_query, sc_plan, sc_score>>

VARIABLES
    env,             \* which top-level inputs exist: approved-plans dataset, data source
    dataset,         \* protocol -> the results lists of its plans, in row order
    catalog,         \* protocol -> what select_protocol_constraints returns for it
    alias_map,       \* load_alias_map(db)
    config,          \* the command-line configuration
    protocol_order,  \* the protocols of this run, in processing order
    pos,             \* number of protocols whose loop iteration has ended
    pc,              \* position of main()
    rng,             \* state of the random generator
    work,            \* locals of the current protocol's loop iteration
    raw_rows, protocol_rows, test_split_rows, skipped_rows,
    written,         \* the output tables written so far
    run,             \* "first" or "second" run of the program on the inputs
    first_run        \* the rows the first run ended with

in_vars == <<env, dataset, catalog, alias_map, config>>
out_vars == <<raw_rows, protocol_rows, test_split_rows, skipped_rows, written>>
eng_vars == <<in_vars, protocol_order, pos, pc, rng, work, out_vars, run, first_run>>

VARIABLES
    fn_call,         \* function harness: the last call made, its name and arguments
    fn_result        \* what the call returned

fn_vars == <<fn_call, fn_result>>

VARIABLES
    heap,            \* object store: the mutable objects by identity (position)
    heap_plans,      \* the "plan_constraints" column: identities of the plan vectors
    references,      \* the Reference dicts built so far; their fields are identities
    scoring          \* the last scoring: reference, plan and score
hp_vars == <<heap, heap_plans, references, scoring>>

vars == <<sc_vars, eng_vars, fn_vars, hp_vars>>

\* no function of the harness has been called
NoCall == [op |-> "none"]
FnIdle ==
    /\ fn_call = NoCall
    /\ fn_result = << >>

NoScoring == [reference |-> 0, plan |-> 0]
HeapIdle ==
    /\ heap = << >>
    /\ heap_plans = << >>
    /\ references = << >>
    /\ scoring = NoScoring

----------------------------------------------------------------------------
(* Bounds of the model *)

\* largest number of plans pooled into one reference by the scorer harness
MaxPop == 3
\* largest number of plans of the varied protocol in the approved-plans dataset
MaxPlans == 3

\* achieved values plans report
Values == {10, 20, 30}

----------------------------------------------------------------------------
(* Generic helpers: sequences, dicts, exact fractions *)

None == <<"None">>
NoNum == << >>
NoScore == << >>

Abs(x) == IF x < 0 THEN -x ELSE x
Max2(a, b) == IF a >= b THEN a ELSE b
Min2(a, b) == IF a <= b THEN a ELSE b

RECURSIVE GCD(_, _)
GCD(a, b) == IF b = 0 THEN a ELSE GCD(b, a % b)

\* the fraction n/d in lowest terms, d > 0
Frac(n, d) ==
    LET g == GCD(Abs(n), Abs(d))
        s == IF d < 0 THEN -1 ELSE 1
    IN  <<(s * n) \div g, (s * d) \div g>>

RZero == <<0, 1>>
ROne == <<1, 1>>
RAdd(a, b) == Frac(a[1] * b[2] + b[1] * a[2], a[2] * b[2])
RSub(a, b) == Frac(a[1] * b[2] - b[1] * a[2], a[2] * b[2])
RMul(a, b) == Frac(a[1] * b[1], a[2] * b[2])
RDiv(a, b) == Frac(a[1] * b[2], a[2] * b[1])
RLeq(a, b) == a[1] * b[2] <= b[1] * a[2]
RLess(a, b) == a[1] * b[2] < b[1] * a[2]
RAbs(a) == <<Abs(a[1]), a[2]>>

\* dict helpers (insertion-ordered, distinct keys)
DictKeys(d) == {d[i][1] : i \in 1..Len(d)}
DictValues(d) == {d[i][2] : i \in 1..Len(d)}
DictHas(d, k) == \E i \in 1..Len(d) : d[i][1] = k
DictGet(d, k) == d[CHOOSE i \in 1..Len(d) : d[i][1] = k][2]
\* the sequence [i \in 1..n |-> e] as a tuple: its elements are computed once
AsList(f) == f \o << >>

DictPut(d, k, v) ==
    IF DictHas(d, k)
    THEN AsList([i \in 1..Len(d) |-> IF d[i][1] = k THEN <<k, v>> ELSE d[i]])
    ELSE Append(d, <<k, v>>)

RECURSIVE SeqsUpTo(_, _)
\* all sequences over S of length 0..n
SeqsUpTo(S, n) ==
    IF n = 0 THEN {<< >>}
    ELSE LET shorter == SeqsUpTo(S, n - 1)
         IN  shorter \cup {Append(s, x) : s \in shorter, x \in S}

----------------------------------------------------------------------------
(* Text: str.strip, str.lower, str.split, str.join on character sequences *)

UpperLetters == <<"A","B","C","D","E","F","G","H","I","J","K","L","M",
                  "N","O","P","Q","R","S","T","U","V","W","X","Y","Z">>
LowerLetters == <<"a","b","c","d","e","f","g","h","i","j","k","l","m",
                  "n","o","p","q","r","s","t","u","v","w","x","y","z">>
Digits == <<"0","1","2","3","4","5","6","7","8","9">>

IsSpace(c) == c \in {" ", "\t"}
IsDigit(c) == \E i \in 1..10 : Digits[i] = c
DigitValue(c) == (CHOOSE i \in 1..10 : Digits[i] = c) - 1

LowerChar(c) ==
    IF \E i \in 1..26 : UpperLetters[i] = c
    THEN LowerLetters[CHOOSE i \in 1..26 : UpperLetters[i] = c]
    ELSE c

\* str.lower()
LowerText(s) == AsList([i \in 1..Len(s) |-> LowerChar(s[i])])

\* str.strip()
Strip(s) ==
    LET solid == {i \in 1..Len(s) : ~IsSpace(s[i])}
    IN  IF solid = {} THEN << >>
        ELSE LET first == CHOOSE i \in solid : \A j \in solid : i <= j
                 last == CHOOSE i \in solid : \A j \in solid : j <= i
             IN  SubSeq(s, first, last)

RECURSIVE SplitFrom(_, _, _, _)
\* str.split(): the maximal runs of non-whitespace characters, in order
SplitFrom(s, i, word, words) ==
    IF i > Len(s)
    THEN IF word = << >> THEN words ELSE Append(words, word)
    ELSE IF IsSpace(s[i])
         THEN SplitFrom(s, i + 1, << >>,
                        IF word = << >> THEN words ELSE Append(words, word))
         ELSE SplitFrom(s, i + 1, Append(word, s[i]), words)

SplitWs(s) == SplitFrom(s, 1, << >>, << >>)

RECURSIVE JoinWith(_, _)
\* sep.join(parts)
JoinWith(parts, sep) ==
    IF parts = << >> THEN << >>
    ELSE IF Len(parts) = 1 THEN parts[1]
    ELSE parts[1] \o sep \o JoinWith(Tail(parts), sep)

RECURSIVE NatStr(_)
\* str(n) for a natural number n
NatStr(n) == IF n < 10 THEN <<Digits[n + 1]>>
             ELSE NatStr(n \div 10) \o <<Digits[(n % 10) + 1]>>

\* str(i) for an int
IntStr(i) == IF i < 0 THEN <<"-">> \o NatStr(-i) ELSE NatStr(i)

\* str(x) for a float x holding a natural number: "20.0"
FloatStr(v) == NatStr(v) \o <<".", "0">>

RECURSIVE DigitsValue(_, _)
DigitsValue(s, acc) ==
    IF s = << >> THEN acc ELSE DigitsValue(Tail(s), 10 * acc + DigitValue(s[1]))

\* float(text) / int(text) on a text of digits with surrounding whitespace;
\* every other text of the model's alphabet raises ValueError (result << >>)
ParseDigits(s) ==
    LET cleaned == Strip(s)
    IN  IF cleaned # << >> /\ \A i \in 1..Len(cleaned) : IsDigit(cleaned[i])
        THEN <<DigitsValue(cleaned, 0)>>
        ELSE NoNum

\* raw values as they come from the data source
RawNone == <<"none">>
RawInt(i) == <<"int", i>>
RawStr(s) == <<"str", s>>

normalize_text(value) ==
    IF value = None THEN None
    ELSE JoinWith(SplitWs(LowerText(Strip(value))), <<" ">>)

parse_numeric(value) ==
    IF value[1] = "none" THEN NoNum
    ELSE IF value[1] = "int" THEN <<value[2]>>
    ELSE ParseDigits(value[2])

\* int(priority) if priority is not None else None, ValueError -> None
priority_int(priority) ==
    IF priority[1] = "none" THEN NoNum
    ELSE IF priority[1] = "int" THEN <<priority[2]>>
    ELSE ParseDigits(priority[2])

SymbolicOps == {<<"<", "=">>, <<"<">>, <<">", "=">>, <<">">>}
LOWER_BETTER_OPS == {<<"<", "=">>, <<"<">>}
HIGHER_BETTER_OPS == {<<">", "=">>, <<">">>}

normalize_operator(value) ==
    IF value = None THEN None
    ELSE LET v == Strip(value)
         IN  IF v \in SymbolicOps THEN v ELSE LowerText(v)

direction_from_operator(operator) ==
    IF operator = None \/ operator = << >> THEN "none"
    ELSE IF operator \in LOWER_BETTER_OPS THEN "lower"
    ELSE IF operator \in HIGHER_BETTER_OPS THEN "higher"
    ELSE "none"

constraint_key(structure, metric_display, goal_op, goal_value, var_op, var_value, priority) ==
    <<normalize_text(structure), normalize_text(metric_display),
      normalize_operator(goal_op), goal_value,
      normalize_operator(var_op), var_value, priority>>

TextStr(t) == IF t = None THEN << >> ELSE t
FloatOptStr(v) == IF v = NoNum THEN << >> ELSE FloatStr(v[1])
IntOptStr(v) == IF v = NoNum THEN << >> ELSE IntStr(v[1])

constraint_key_to_str(key) ==
    JoinWith(<<TextStr(key[1]), TextStr(key[2]), TextStr(key[3]),
               FloatOptStr(key[4]), TextStr(key[5]), FloatOptStr(key[6]),
               IntOptStr(key[7])>>, <<"|", "|">>)

----------------------------------------------------------------------------
(* Constraint dictionary and scoring context *)

\* A constraint definition, as build_standard_constraints and
\* build_protocol_constraints hand it on: goal_value and variation_value are
\* already parsed (optional numbers), priority is still raw.
ConstraintDef(structure, metric, priority, goal_op, goal_value) ==
    [structure |-> structure, metric_display |-> metric, priority |-> priority,
     goal_operator |-> goal_op, goal_value |-> goal_value,
     variation_operator |-> None, variation_value |-> NoNum]

ConstraintKeyStr(c) ==
    constraint_key_to_str(constraint_key(c.structure, c.metric_display, c.goal_operator, c.goal_value, c.variation_operator, c.variation_value, priority_int(c.priority)))

ConstraintMeta(c) ==
    [structure |-> c.structure, metric_display |-> c.metric_display,
     goal_operator |-> normalize_operator(c.goal_operator),
     goal_value |-> c.goal_value,
     variation_operator |-> normalize_operator(c.variation_operator),
     variation_value |-> c.variation_value,
     priority |-> priority_int(c.priority)]

RECURSIVE LookupFromLastWins(_, _, _)
\* mutant: a later definition with the same key replaces the earlier one
LookupFromLastWins(constraints, i, lookup) ==
    IF i > Len(constraints) THEN lookup
    ELSE LookupFromLastWins(constraints, i + 1,
                            DictPut(lookup, ConstraintKeyStr(constraints[i]), ConstraintMeta(constraints[i])))

RECURSIVE LookupFrom(_, _, _)
LookupFrom(constraints, i, lookup) ==
    IF i > Len(constraints) THEN lookup
    ELSE LET key_str == ConstraintKeyStr(constraints[i])
         IN  IF DictHas(lookup, key_str)
             THEN LookupFrom(constraints, i + 1, lookup)
             ELSE LookupFrom(constraints, i + 1,
                             Append(lookup, <<key_str, ConstraintMeta(constraints[i])>>))

build_constraint_lookup(constraints) == LookupFrom(constraints, 1, << >>)

RECURSIVE StructureMapFrom(_, _, _)
StructureMapFrom(constraints, i, structure_map) ==
    IF i > Len(constraints) THEN structure_map
    ELSE LET structure == constraints[i].structure
             norm == normalize_text(structure)
         IN  IF norm # None /\ norm # << >>
             THEN StructureMapFrom(constraints, i + 1, DictPut(structure_map, norm, structure))
             ELSE StructureMapFrom(constraints, i + 1, structure_map)

build_protocol_structure_map(constraints) == StructureMapFrom(constraints, 1, << >>)

\* weights[key] = 1.0 / float(priority) for a positive int priority
HasWeight(priority) == priority # NoNum /\ priority[1] > 0
WeightOf(priority) == Frac(1, priority[1])

RECURSIVE DirectionsFrom(_, _, _)
DirectionsFrom(lookup, i, directions) ==
    IF i > Len(lookup) THEN directions
    ELSE LET direction == direction_from_operator(lookup[i][2].goal_operator)
         IN  IF direction = "none"
             THEN DirectionsFrom(lookup, i + 1, directions)
             ELSE DirectionsFrom(lookup, i + 1, DictPut(directions, lookup[i][1], direction))

RECURSIVE WeightsFrom(_, _, _)
WeightsFrom(lookup, i, weights) ==
    IF i > Len(lookup) THEN weights
    ELSE LET meta == lookup[i][2]
         IN  IF direction_from_operator(meta.goal_operator) # "none" /\ HasWeight(meta.priority)
             THEN WeightsFrom(lookup, i + 1, DictPut(weights, lookup[i][1], WeightOf(meta.priority)))
             ELSE WeightsFrom(lookup, i + 1, weights)

ContextFrom(constraints, constraint_lookup) ==
    [constraint_lookup |-> constraint_lookup,
     protocol_structure_map |-> build_protocol_structure_map(constraints),
     directions |-> DirectionsFrom(constraint_lookup, 1, << >>),
     weights |-> WeightsFrom(constraint_lookup, 1, << >>)]

build_constraint_context(constraints) ==
    ContextFrom(constraints, build_constraint_lookup(constraints))

----------------------------------------------------------------------------
(* Population reference builder *)

RECURSIVE InsertSorted(_, _)
InsertSorted(sorted, v) ==
    IF sorted = << >> THEN <<v>>
    ELSE IF v < sorted[1] THEN <<v>> \o sorted
    ELSE <<sorted[1]>> \o InsertSorted(Tail(sorted), v)

RECURSIVE SortFrom(_, _, _)
SortFrom(values, i, sorted) ==
    IF i > Len(values) THEN sorted
    ELSE SortFrom(values, i + 1, InsertSorted(sorted, values[i]))

\* mutant: the collected values are kept in plan order
Unsorted(values) == values

\* np.sort(np.asarray(values, dtype=float))
np_sort(values) == SortFrom(values, 1, << >>)

RECURSIVE AppendPlan(_, _, _)
\* for key_str, value in plan_constraints.items():
\*     if key_str in distributions: distributions[key_str].append(value)
AppendPlan(distributions, plan_constraints, j) ==
    IF j > Len(plan_constraints) THEN distributions
    ELSE LET key_str == plan_constraints[j][1]
             value == plan_constraints[j][2]
         IN  IF DictHas(distributions, key_str)
             THEN AppendPlan(DictPut(distributions, key_str, Append(DictGet(distributions, key_str), value)), plan_constraints, j + 1)
             ELSE AppendPlan(distributions, plan_constraints, j + 1)

RECURSIVE CollectFrom(_, _, _)
CollectFrom(plan_vectors, i, distributions) ==
    IF i > Len(plan_vectors) THEN distributions
    ELSE CollectFrom(plan_vectors, i + 1, AppendPlan(distributions, plan_vectors[i], 1))

RECURSIVE SortedDistributionsFrom(_, _, _)
SortedDistributionsFrom(distributions, i, sorted_distributions) ==
    IF i > Len(distributions) THEN sorted_distributions
    ELSE IF distributions[i][2] = << >>
         THEN SortedDistributionsFrom(distributions, i + 1, sorted_distributions)
         ELSE SortedDistributionsFrom(distributions, i + 1,
                  Append(sorted_distributions, <<distributions[i][1], np_sort(distributions[i][2])>>))

\* plan_vectors is the "plan_constraints" column of plan_constraints_df
build_reference_from_plan_constraints(plan_vectors, constraint_lookup, directions, weights) ==
    LET empty == AsList([i \in 1..Len(constraint_lookup) |-> <<constraint_lookup[i][1], << >> >>])
        distributions == CollectFrom(plan_vectors, 1, empty)
    IN  [constraint_meta |-> constraint_lookup,
         distributions |-> SortedDistributionsFrom(distributions, 1, << >>),
         directions |-> directions,
         weights |-> weights]

----------------------------------------------------------------------------
(* Percentile scorer *)

NaN == <<0, 0>>

RECURSIVE BisectRight(_, _, _, _)
\* np.searchsorted(sorted_values, value, side="right"): binary search for the
\* first index whose element is greater than value
BisectRight(sorted_values, value, lo, hi) ==
    IF lo >= hi THEN lo
    ELSE LET mid == (lo + hi) \div 2
         IN  IF value < sorted_values[mid + 1]
             THEN BisectRight(sorted_values, value, lo, mid)
             ELSE BisectRight(sorted_values, value, mid + 1, hi)

RECURSIVE BisectLeft(_, _, _, _)
BisectLeft(sorted_values, value, lo, hi) ==
    IF lo >= hi THEN lo
    ELSE LET mid == (lo + hi) \div 2
         IN  IF sorted_values[mid + 1] < value
             THEN BisectLeft(sorted_values, value, mid + 1, hi)
             ELSE BisectLeft(sorted_values, value, lo, mid)

\* mutant: side="left"
searchsorted_left(sorted_values, value) ==
    BisectLeft(sorted_values, value, 0, Len(sorted_values))

searchsorted_right(sorted_values, value) ==
    BisectRight(sorted_values, value, 0, Len(sorted_values))

ClampRank(rank, n) == IF rank < 1 THEN 1 ELSE IF rank > n THEN n ELSE rank

PercentileBase(value, sorted_values) ==
    LET n == Len(sorted_values)
    IN  IF n = 1 THEN ROne
        ELSE Frac(ClampRank(searchsorted_right(sorted_values, value), n) - 1, n - 1)

\* mutant: the direction is not applied
ApplyDirectionIgnored(base, direction) == base

ApplyDirection(base, direction) ==
    IF direction = "lower" THEN RSub(ROne, base) ELSE base

compute_percentile(value, sorted_values, direction) ==
    IF Len(sorted_values) = 0 THEN NaN
    ELSE ApplyDirection(PercentileBase(value, sorted_values), direction)

\* the guard of the scoring loop: dist, direction and weight are all present
Usable(key_str, distributions, directions, weights) ==
    DictHas(distributions, key_str) /\ DictHas(directions, key_str) /\ DictHas(weights, key_str)

RECURSIVE ScoreLoopWeighsMissing(_, _, _, _, _, _)
\* mutant: a key without a distribution still adds its weight to the total
ScoreLoopWeighsMissing(plan_constraints, j, distributions, directions, weights, totals) ==
    IF j > Len(plan_constraints) THEN totals
    ELSE LET key_str == plan_constraints[j][1]
             value == plan_constraints[j][2]
         IN  IF Usable(key_str, distributions, directions, weights)
             THEN ScoreLoopWeighsMissing(plan_constraints, j + 1, distributions, directions, weights,
                      <<RAdd(totals[1], RMul(DictGet(weights, key_str), compute_percentile(value, DictGet(distributions, key_str), DictGet(directions, key_str)))),
                        RAdd(totals[2], DictGet(weights, key_str))>>)
             ELSE IF DictHas(weights, key_str)
             THEN ScoreLoopWeighsMissing(plan_constraints, j + 1, distributions, directions, weights,
                      <<totals[1], RAdd(totals[2], DictGet(weights, key_str))>>)
             ELSE ScoreLoopWeighsMissing(plan_constraints, j + 1, distributions, directions, weights, totals)

RECURSIVE ScoreLoop(_, _, _, _, _, _)
\* returns <<total_score, total_weight>>
ScoreLoop(plan_constraints, j, distributions, directions, weights, totals) ==
    IF j > Len(plan_constraints) THEN totals
    ELSE LET key_str == plan_constraints[j][1]
             value == plan_constraints[j][2]
         IN  IF ~Usable(key_str, distributions, directions, weights)
             THEN ScoreLoop(plan_constraints, j + 1, distributions, directions, weights, totals)
             ELSE LET weight == DictGet(weights, key_str)
                      percentile == compute_percentile(value, DictGet(distributions, key_str), DictGet(directions, key_str))
                  IN  ScoreLoop(plan_constraints, j + 1, distributions, directions, weights,
                                <<RAdd(totals[1], RMul(weight, percentile)), RAdd(totals[2], weight)>>)

\* mutant: the weighted sum is not divided by the total weight
FinalScoreUnnormalized(total_score, total_weight) ==
    IF total_weight = RZero THEN NoScore ELSE total_score

\* mutant: a plan with no usable constraint scores 0
FinalScoreZeroWhenEmpty(total_score, total_weight) ==
    IF total_weight = RZero THEN RZero ELSE RDiv(total_score, total_weight)

FinalScore(total_score, total_weight) ==
    IF total_weight = RZero THEN NoScore ELSE RDiv(total_score, total_weight)

compute_plan_score(plan_constraints, distributions, directions, weights) ==
    LET totals == ScoreLoop(plan_constraints, 1, distributions, directions, weights, <<RZero, RZero>>)
    IN  FinalScore(totals[1], totals[2])

\* score_plan_constraints_df: one score per plan vector, in row order
score_plan_constraints_df(plan_vectors, reference) ==
    AsList([i \in 1..Len(plan_vectors) |->
        compute_plan_score(plan_vectors[i], reference.distributions, reference.directions, reference.weights)])

----------------------------------------------------------------------------
(* Structure resolver and plan constraint extractor *)

IsAlnum(c) ==
    \/ \E i \in 1..26 : UpperLetters[i] = c \/ LowerLetters[i] = c
    \/ IsDigit(c)

RECURSIVE TokensFrom(_, _, _, _)
\* re.split(r"[^A-Za-z0-9]+", value.lower()), empty tokens dropped
TokensFrom(s, i, token, tokens) ==
    IF i > Len(s)
    THEN IF token = << >> THEN tokens ELSE Append(tokens, token)
    ELSE IF ~IsAlnum(s[i])
         THEN TokensFrom(s, i + 1, << >>,
                         IF token = << >> THEN tokens ELSE Append(tokens, token))
         ELSE TokensFrom(s, i + 1, Append(token, s[i]), tokens)

tokenize(value) == TokensFrom(LowerText(value), 1, << >>, << >>)

TokenSet(value) == {tokenize(value)[i] : i \in 1..Len(tokenize(value))}

\* len(overlap) / max(len(raw_tokens), len(target_tokens))
OverlapScore(raw_tokens, target_tokens) ==
    Frac(Cardinality(raw_tokens \cap target_tokens),
         Max2(Cardinality(raw_tokens), Cardinality(target_tokens)))

RECURSIVE BestMatchFromLastWins(_, _, _, _, _)
\* mutant: a later candidate with an equal score replaces the best match
BestMatchFromLastWins(raw_tokens, structure_map, i, best_match, best_score) ==
    IF i > Len(structure_map) THEN <<best_match, best_score>>
    ELSE IF TokenSet(structure_map[i][2]) = {}
    THEN BestMatchFromLastWins(raw_tokens, structure_map, i + 1, best_match, best_score)
    ELSE IF RLeq(best_score, OverlapScore(raw_tokens, TokenSet(structure_map[i][2])))
    THEN BestMatchFromLastWins(raw_tokens, structure_map, i + 1, structure_map[i][2], OverlapScore(raw_tokens, TokenSet(structure_map[i][2])))
    ELSE BestMatchFromLastWins(raw_tokens, structure_map, i + 1, best_match, best_score)

RECURSIVE BestMatchFrom(_, _, _, _, _)
\* the fuzzy loop over protocol_structure_map.items(); best is <<match, score>>
BestMatchFrom(raw_tokens, structure_map, i, best_match, best_score) ==
    IF i > Len(structure_map) THEN <<best_match, best_score>>
    ELSE LET canonical == structure_map[i][2]
             target_tokens == TokenSet(canonical)
         IN  IF target_tokens = {}
             THEN BestMatchFrom(raw_tokens, structure_map, i + 1, best_match, best_score)
             ELSE IF RLess(best_score, OverlapScore(raw_tokens, target_tokens))
             THEN BestMatchFrom(raw_tokens, structure_map, i + 1, canonical, OverlapScore(raw_tokens, target_tokens))
             ELSE BestMatchFrom(raw_tokens, structure_map, i + 1, best_match, best_score)

Truthy(text) == text # None /\ text # << >>

FuzzyMatch(raw_name, protocol_structure_map) ==
    IF TokenSet(raw_name) = {} THEN None
    ELSE LET best == BestMatchFrom(TokenSet(raw_name), protocol_structure_map, 1, None, RZero)
         IN  IF Truthy(best[1]) /\ RLess(RZero, best[2]) THEN best[1] ELSE None

resolve_structure(raw_name, aliases, protocol_structure_map) ==
    IF ~Truthy(raw_name) THEN None
    ELSE LET normalized == normalize_text(raw_name)
         IN  IF ~Truthy(normalized) THEN None
             ELSE IF DictHas(aliases, normalized) /\ Truthy(DictGet(aliases, normalized))
             THEN DictGet(aliases, normalized)
             ELSE IF DictHas(protocol_structure_map, normalized) /\ Truthy(DictGet(protocol_structure_map, normalized))
             THEN DictGet(protocol_structure_map, normalized)
             ELSE FuzzyMatch(raw_name, protocol_structure_map)

RECURSIVE AliasesFrom(_, _, _, _)
\* the inner loop of load_alias_map over doc.get("aliases")
AliasesFrom(alias_names, j, canonical, aliases) ==
    IF j > Len(alias_names) THEN aliases
    ELSE IF Truthy(normalize_text(alias_names[j]))
    THEN AliasesFrom(alias_names, j + 1, canonical, DictPut(aliases, normalize_text(alias_names[j]), canonical))
    ELSE AliasesFrom(alias_names, j + 1, canonical, aliases)

\* alias_map[canonical_norm] = canonical, when canonical_norm is not empty
WithCanonical(canonical, aliases) ==
    IF Truthy(normalize_text(canonical))
    THEN DictPut(aliases, normalize_text(canonical), canonical)
    ELSE aliases

RECURSIVE AliasDocsFrom(_, _, _)
\* the loop of load_alias_map over the documents of custom_structure_aliases
AliasDocsFrom(docs, i, aliases) ==
    IF i > Len(docs) THEN aliases
    ELSE IF ~Truthy(docs[i].canonical)
    THEN AliasDocsFrom(docs, i + 1, aliases)
    ELSE AliasDocsFrom(docs, i + 1,
                       AliasesFrom(docs[i].aliases, 1, docs[i].canonical, WithCanonical(docs[i].canonical, aliases)))

load_alias_map(docs) == AliasDocsFrom(docs, 1, << >>)

\* a or b on optional texts
OrText(a, b) == IF Truthy(a) THEN a ELSE b

\* One result record of a plan.  goal_value, variation_value and achieved are
\* raw values; metric_display is metric.display, objective the fallback.
ResultKeyStr(result, aliases, protocol_structure_map) ==
    constraint_key_to_str(constraint_key(resolve_structure(OrText(result.structure_tg263, result.structure), aliases, protocol_structure_map), OrText(result.metric_display, result.objective), result.goal_operator, parse_numeric(result.goal_value), result.variation_operator, parse_numeric(result.variation_value), priority_int(result.priority)))

\* mutant: a later record for a key that is already matched overwrites it
MatchedWithLastWins(matched, constraint_lookup, key_str, achieved_value) ==
    IF ~DictHas(constraint_lookup, key_str) \/ achieved_value = NoNum
    THEN matched
    ELSE DictPut(matched, key_str, achieved_value[1])

\* the three `continue` tests of the loop body and the assignment to matched
MatchedWith(matched, constraint_lookup, key_str, achieved_value) ==
    IF \/ ~DictHas(constraint_lookup, key_str)
       \/ achieved_value = NoNum
       \/ DictHas(matched, key_str)
    THEN matched
    ELSE Append(matched, <<key_str, achieved_value[1]>>)

RECURSIVE ExtractFrom(_, _, _, _, _, _)
ExtractFrom(results, i, constraint_lookup, aliases, protocol_structure_map, matched) ==
    IF i > Len(results) THEN matched
    ELSE ExtractFrom(results, i + 1, constraint_lookup, aliases, protocol_structure_map,
                     MatchedWith(matched, constraint_lookup,
                                 ResultKeyStr(results[i], aliases, protocol_structure_map),
                                 parse_numeric(results[i].achieved)))

extract_plan_constraints(results, constraint_lookup, aliases, protocol_structure_map) ==
    ExtractFrom(results, 1, constraint_lookup, aliases, protocol_structure_map, << >>)

\* build_plan_constraints_df: one row per plan of the group, in row order
build_plan_constraints_df(group, constraint_lookup, aliases, protocol_structure_map) ==
    AsList([i \in 1..Len(group) |->
        [plan_id |-> group[i].plan_id,
         plan_constraints |-> extract_plan_constraints(group[i].results, constraint_lookup, aliases, protocol_structure_map)]])

----------------------------------------------------------------------------
(* Step 2: the population reference and the plan scores in one pass *)

\* mutant: a priority of 1 gets no weight
PopulationHasWeightAboveOne(priority) == priority # NoNum /\ priority[1] > 1

\* priority is not None and priority > 0
PopulationHasWeight(priority) == priority # NoNum /\ priority[1] > 0

RECURSIVE PopulationContextFrom(_, _, _, _)
\* the loop over constraint_lookup.items(): <<directions, weights>>
PopulationContextFrom(constraint_lookup, i, directions, weights) ==
    IF i > Len(constraint_lookup) THEN <<directions, weights>>
    ELSE IF direction_from_operator(constraint_lookup[i][2].goal_operator) = "none"
    THEN PopulationContextFrom(constraint_lookup, i + 1, directions, weights)
    ELSE PopulationContextFrom(constraint_lookup, i + 1,
             DictPut(directions, constraint_lookup[i][1],
                     direction_from_operator(constraint_lookup[i][2].goal_operator)),
             IF PopulationHasWeight(constraint_lookup[i][2].priority)
             THEN DictPut(weights, constraint_lookup[i][1], Frac(1, constraint_lookup[i][2].priority[1]))
             ELSE weights)

RECURSIVE PopulationPlansFrom(_, _, _, _, _, _, _)
RECURSIVE PopulationPlanAdded(_, _, _, _, _, _, _, _)
\* the body of the loop over plans.iterrows() once the plan is extracted
PopulationPlanAdded(plans, i, constraint_lookup, aliases, protocol_structure_map, distributions, plan_scores, plan_constraints) ==
    PopulationPlansFrom(plans, i + 1, constraint_lookup, aliases, protocol_structure_map,
                        AppendPlan(distributions, plan_constraints, 1),
                        Append(plan_scores, [plan_id |-> plans[i].plan_id,
                                             plan_constraints |-> plan_constraints]))

\* the loop over plans.iterrows(): <<distributions, plan_scores>>
PopulationPlansFrom(plans, i, constraint_lookup, aliases, protocol_structure_map, distributions, plan_scores) ==
    IF i > Len(plans) THEN <<distributions, plan_scores>>
    ELSE PopulationPlanAdded(plans, i, constraint_lookup, aliases, protocol_structure_map,
                             distributions, plan_scores,
                             extract_plan_constraints(plans[i].results, constraint_lookup, aliases,
                                                      protocol_structure_map))

\* plan_scores_df["plan_score"] = plan_scores_df["plan_constraints"].apply(...)
PopulationScored(plan_scores, sorted_distributions, directions, weights) ==
    AsList([i \in 1..Len(plan_scores) |->
        [plan_id |-> plan_scores[i].plan_id,
         plan_constraints |-> plan_scores[i].plan_constraints,
         plan_score |-> compute_plan_score(plan_scores[i].plan_constraints, sorted_distributions,
                                           directions, weights)]])

\* the reference and the scored frame from the outcome of the two loops
PopulationResult(constraint_lookup, context, sorted_distributions, plan_scores) ==
    [reference |-> [constraint_meta |-> constraint_lookup,
                    distributions |-> sorted_distributions,
                    directions |-> context[1],
                    weights |-> context[2]],
     plan_scores_df |-> PopulationScored(plan_scores, sorted_distributions, context[1], context[2])]

PopulationFrom(constraint_lookup, context, collected) ==
    PopulationResult(constraint_lookup, context,
                     SortedDistributionsFrom(collected[1], 1, << >>), collected[2])

PopulationOver(plans, constraint_lookup, aliases, protocol_structure_map) ==
    PopulationFrom(constraint_lookup,
                   PopulationContextFrom(constraint_lookup, 1, << >>, << >>),
                   PopulationPlansFrom(plans, 1, constraint_lookup, aliases, protocol_structure_map,
                       AsList([i \in 1..Len(constraint_lookup) |-> <<constraint_lookup[i][1], << >> >>]),
                       << >>))

build_population_reference(plans, constraints, aliases) ==
    PopulationOver(plans, build_constraint_lookup(constraints), aliases,
                   build_protocol_structure_map(constraints))

----------------------------------------------------------------------------
(* Protocol constraint selection *)

\* normalize_text(name) or name
NormOr(name) == IF Truthy(normalize_text(name)) THEN normalize_text(name) ELSE name

\* what select_protocol_constraints returns: the constraints and the source tag
Selection(constraints, source) == [constraints |-> constraints, source |-> source]

\* nothing returned yet: the loop goes on
NoSelection == [source |-> ""]

\* mutant: the standard name of the link is tried before its standard id
LinkSelectionNameFirst(ref, standard_constraints_by_name, standard_constraints_by_id) ==
    IF Truthy(ref.standard_name) /\ DictHas(standard_constraints_by_name, NormOr(ref.standard_name))
    THEN Selection(DictGet(standard_constraints_by_name, NormOr(ref.standard_name)), "standard_protocols_ref_name")
    ELSE IF Truthy(ref.standard_id) /\ DictHas(standard_constraints_by_id, ref.standard_id)
    THEN Selection(DictGet(standard_constraints_by_id, ref.standard_id), "standard_protocols_id")
    ELSE NoSelection

\* the body of the candidate loop for one link: by standard id, then by name
LinkSelection(ref, standard_constraints_by_name, standard_constraints_by_id) ==
    IF Truthy(ref.standard_id) /\ DictHas(standard_constraints_by_id, ref.standard_id)
    THEN Selection(DictGet(standard_constraints_by_id, ref.standard_id), "standard_protocols_id")
    ELSE IF Truthy(ref.standard_name) /\ DictHas(standard_constraints_by_name, NormOr(ref.standard_name))
    THEN Selection(DictGet(standard_constraints_by_name, NormOr(ref.standard_name)), "standard_protocols_ref_name")
    ELSE NoSelection

\* candidate_names: protocol_raw when it is not empty, then protocol
CandidateNames(protocol, protocol_raw) ==
    IF Truthy(protocol_raw) THEN <<protocol_raw, protocol>> ELSE <<protocol>>

RECURSIVE CandidatesFrom(_, _, _, _, _)
\* the loop over candidate_names; the first link that selects returns
CandidatesFrom(candidate_names, i, standard_constraints_by_name, standard_constraints_by_id, standard_ref_map) ==
    IF i > Len(candidate_names) THEN NoSelection
    ELSE IF ~DictHas(standard_ref_map, NormOr(candidate_names[i]))
    THEN CandidatesFrom(candidate_names, i + 1, standard_constraints_by_name, standard_constraints_by_id, standard_ref_map)
    ELSE IF LinkSelection(DictGet(standard_ref_map, NormOr(candidate_names[i])),
                          standard_constraints_by_name, standard_constraints_by_id) # NoSelection
    THEN LinkSelection(DictGet(standard_ref_map, NormOr(candidate_names[i])),
                       standard_constraints_by_name, standard_constraints_by_id)
    ELSE CandidatesFrom(candidate_names, i + 1, standard_constraints_by_name, standard_constraints_by_id, standard_ref_map)

\* the tail of select_protocol_constraints: the raw name in the custom catalog
RawSelection(protocol_raw, protocol_constraints) ==
    IF Truthy(protocol_raw) /\ DictHas(protocol_constraints, NormOr(protocol_raw))
    THEN Selection(DictGet(protocol_constraints, NormOr(protocol_raw)), "protocols_raw")
    ELSE Selection(<< >>, "missing")

select_protocol_constraints(protocol, protocol_raw, standard_constraints_by_name, standard_constraints_by_id, protocol_constraints, standard_ref_map) ==
    IF DictHas(standard_constraints_by_name, NormOr(protocol))
    THEN Selection(DictGet(standard_constraints_by_name, NormOr(protocol)), "standard_protocols_name")
    ELSE IF DictHas(protocol_constraints, NormOr(protocol))
    THEN Selection(DictGet(protocol_constraints, NormOr(protocol)), "protocols")
    ELSE IF CandidatesFrom(CandidateNames(protocol, protocol_raw), 1, standard_constraints_by_name,
                           standard_constraints_by_id, standard_ref_map) # NoSelection
    THEN CandidatesFrom(CandidateNames(protocol, protocol_raw), 1, standard_constraints_by_name,
                        standard_constraints_by_id, standard_ref_map)
    ELSE RawSelection(protocol_raw, protocol_constraints)

----------------------------------------------------------------------------
(* N* estimate from the inverse square root fit *)

\* The number base + coeff / sqrt(n), base and coeff exact fractions: the
\* square root is kept symbolic and compared exactly.
Surd(base, coeff, n) == [base |-> base, coeff |-> coeff, n |-> n]

\* a <= b for two such numbers with the same base: x -> x * |x| is monotone,
\* and (coeff / sqrt(n)) * |coeff / sqrt(n)| = coeff * |coeff| / n
SurdLeq(a, b) ==
    RLeq(RMul(RMul(a.coeff, RAbs(a.coeff)), Frac(b.n, 1)),
         RMul(RMul(b.coeff, RAbs(b.coeff)), Frac(a.n, 1)))

\* predictions = intercept + slope / np.sqrt(n_values)
Predictions(n_values, intercept, slope) ==
    AsList([i \in 1..Len(n_values) |-> Surd(intercept, slope, n_values[i])])

RECURSIVE MinSurdFrom(_, _, _)
\* mutant: the lowest prediction is taken for the highest
MinSurdFrom(predictions, i, best) ==
    IF i > Len(predictions) THEN best
    ELSE IF SurdLeq(best, predictions[i]) THEN MinSurdFrom(predictions, i + 1, best)
    ELSE MinSurdFrom(predictions, i + 1, predictions[i])

RECURSIVE MaxSurdFrom(_, _, _)
\* np.max(predictions)
MaxSurdFrom(predictions, i, best) ==
    IF i > Len(predictions) THEN best
    ELSE IF SurdLeq(predictions[i], best) THEN MaxSurdFrom(predictions, i + 1, best)
    ELSE MaxSurdFrom(predictions, i + 1, predictions[i])

\* target = intercept + plateau_fraction * (max_pred - intercept)
Target(intercept, plateau_fraction, max_pred) ==
    Surd(intercept, RMul(plateau_fraction, max_pred.coeff), max_pred.n)

\* sorted(zip(n_values, predictions), key=lambda x: x[0])
SortedByN(predictions) == SortSeq(predictions, LAMBDA a, b : a.n < b.n)

\* mutant: the first sampled N when no prediction reaches the target
FirstSampled(n_values) == n_values[1]

\* int(n_values[-1])
LastSampled(n_values) == n_values[Len(n_values)]

RECURSIVE NStarFrom(_, _, _, _)
\* the loop of estimate_n_star over the sorted pairs
NStarFrom(pairs, i, target, n_values) ==
    IF i > Len(pairs) THEN LastSampled(n_values)
    ELSE IF SurdLeq(pairs[i], target) THEN pairs[i].n
    ELSE NStarFrom(pairs, i + 1, target, n_values)

estimate_n_star(n_values, intercept, slope, plateau_fraction) ==
    NStarFrom(SortedByN(Predictions(n_values, intercept, slope)), 1,
              Target(intercept, plateau_fraction,
                     MaxSurdFrom(Predictions(n_values, intercept, slope), 2,
                                 Predictions(n_values, intercept, slope)[1])),
              n_values)

----------------------------------------------------------------------------
(* Inputs of the scorer harness *)

T_PTV == <<"P", "T", "V">>
T_ptv_padded == <<" ", "p", "t", "v", " ">>
T_Cord == <<"C", "o", "r", "d">>
T_Lung == <<"L", "u", "n", "g">>
T_D95 == <<"D", "9", "5">>
T_Dmax == <<"D", "m", "a", "x">>
Op_LE == <<"<", "=">>
Op_LT == <<"<">>
Op_GE == <<">", "=">>
Op_EQ == <<"=">>

PtvHigher1 == ConstraintDef(T_PTV, T_D95, RawInt(1), Op_GE, <<20>>)
PtvHigher1Dup == ConstraintDef(T_ptv_padded, T_D95, RawStr(<<"1">>), Op_GE, <<20>>)
CordLower2 == ConstraintDef(T_Cord, T_Dmax, RawInt(2), Op_LE, <<30>>)
CordLower3 == ConstraintDef(T_Cord, T_Dmax, RawStr(<<" ", "3">>), Op_LE, <<30>>)
CordLower1 == ConstraintDef(T_Cord, T_Dmax, RawInt(1), Op_LT, <<30>>)
CordLower0 == ConstraintDef(T_Cord, T_Dmax, RawInt(0), Op_LE, <<30>>)
LungEq1 == ConstraintDef(T_Lung, T_Dmax, RawInt(1), Op_EQ, <<10>>)
LungNoPriority == ConstraintDef(T_Lung, T_Dmax, RawNone, Op_LE, <<10>>)

\* the constraint lists the scorer harness builds contexts from
ScConstraintLists ==
    { <<PtvHigher1, CordLower2>>,
      <<CordLower2, CordLower3>>,
      <<PtvHigher1, PtvHigher1Dup, LungEq1>>,
      <<CordLower0, LungNoPriority>>,
      <<CordLower1>> }

\* a key that belongs to no constraint list of the harness
ForeignKey == <<"f", "o", "r", "e", "i", "g", "n">>

RECURSIVE VectorsOver(_)
\* all plan vectors (dicts key -> value) over a sequence of keys, in key order
VectorsOver(keys) ==
    IF keys = << >> THEN {<< >>}
    ELSE LET rest == VectorsOver(Tail(keys))
         IN  rest \cup {<<<<keys[1], v>>>> \o r : v \in Values, r \in rest}

LookupKeys(lookup) == AsList([i \in 1..Len(lookup) |-> lookup[i][1]])

NoContext == [constraint_lookup |-> << >>, protocol_structure_map |-> << >>,
              directions |-> << >>, weights |-> << >>]
NoReference == [constraint_meta |-> << >>, distributions |-> << >>,
                directions |-> << >>, weights |-> << >>]
NoQuery == [key |-> << >>, value |-> 0, result |-> NaN]

ScInit ==
    /\ sc_pc = "start"
    /\ sc_context = NoContext
    /\ sc_reference = NoReference
    /\ sc_query = NoQuery
    /\ sc_plan = << >>
    /\ sc_score = NoScore

\* build_constraint_context on one constraint list
ScBuildContext ==
    /\ sc_pc = "start"
    /\ \E constraints \in ScConstraintLists :
           sc_context' = build_constraint_context(constraints)
    /\ sc_pc' = "context"
    /\ UNCHANGED <<sc_reference, sc_query, sc_plan, sc_score, eng_vars, fn_vars, hp_vars>>

\* build_reference_from_plan_constraints on a population of plan vectors
ScBuildReference ==
    /\ sc_pc = "context"
    /\ \E population \in SeqsUpTo(VectorsOver(LookupKeys(sc_context.constraint_lookup)), MaxPop) :
           sc_reference' = build_reference_from_plan_constraints(population, sc_context.constraint_lookup, sc_context.directions, sc_context.weights)
    /\ sc_pc' = "reference"
    /\ UNCHANGED <<sc_context, sc_query, sc_plan, sc_score, eng_vars, fn_vars, hp_vars>>

\* compute_percentile of a value against one distribution of the reference
ScPercentile ==
    /\ sc_pc = "reference"
    /\ \E key_str \in DictKeys(sc_reference.distributions) \cap DictKeys(sc_reference.directions), value \in Values :
           sc_query' = [key |-> key_str, value |-> value,
                        result |-> compute_percentile(value, DictGet(sc_reference.distributions, key_str), DictGet(sc_reference.directions, key_str))]
    /\ sc_pc' = "percentile"
    /\ UNCHANGED <<sc_context, sc_reference, sc_plan, sc_score, eng_vars, fn_vars, hp_vars>>

\* compute_plan_score of one plan vector against the reference
ScScorePlan ==
    /\ sc_pc = "reference"
    /\ \E plan \in VectorsOver(LookupKeys(sc_context.constraint_lookup) \o <<ForeignKey>>) :
           /\ sc_plan' = plan
           /\ sc_score' = compute_plan_score(plan, sc_reference.distributions, sc_reference.directions, sc_reference.weights)
    /\ sc_pc' = "scored"
    /\ UNCHANGED <<sc_context, sc_reference, sc_query, eng_vars, fn_vars, hp_vars>>

ScNext == ScBuildContext \/ ScBuildReference \/ ScPercentile \/ ScScorePlan


----------------------------------------------------------------------------
(* Properties of the percentile scorer (SpecScore) *)

ScDist(key_str) == DictGet(sc_reference.distributions, key_str)
ScDir(key_str) == DictGet(sc_reference.directions, key_str)
ScScoreOf(plan) ==
    compute_plan_score(plan, sc_reference.distributions, sc_reference.directions, sc_reference.weights)
\* the plan vector with the value of its j-th entry replaced by b
WithValue(plan, j, b) == [plan EXCEPT ![j] = <<plan[j][1], b>>]
\* score x is at least score y (both absent, or both present and x >= y)
ScoreGeq(x, y) == IF x = NoScore THEN y = NoScore ELSE y # NoScore /\ RLeq(y, x)

\* C1: for a lower-is-better distribution and achieved values a < b,
\* compute_percentile(a) >= compute_percentile(b), and two plan vectors that
\* differ only in that constraint's value (a versus b) score
\* compute_plan_score(plan_a) >= compute_plan_score(plan_b).
C1_PercentileMonotone ==
    /\ (sc_pc = "percentile" /\ ScDir(sc_query.key) = "lower") =>
           \A b \in Values : sc_query.value < b =>
               RLeq(compute_percentile(b, ScDist(sc_query.key), "lower"), sc_query.result)
    /\ sc_pc = "scored" =>
           \A j \in 1..Len(sc_plan) :
               (DictHas(sc_reference.directions, sc_plan[j][1]) /\ ScDir(sc_plan[j][1]) = "lower") =>
                   \A b \in Values : sc_plan[j][2] < b =>
                       ScoreGeq(sc_score, ScScoreOf(WithValue(sc_plan, j, b)))

\* C1 witness: a scored plan whose score strictly drops when the value of one
\* of its lower-is-better constraints is raised.
C1_Witness ==
    /\ sc_pc = "scored"
    /\ sc_score # NoScore
    /\ \E j \in 1..Len(sc_plan), b \in Values :
           /\ DictHas(sc_reference.directions, sc_plan[j][1])
           /\ ScDir(sc_plan[j][1]) = "lower"
           /\ sc_plan[j][2] < b
           /\ RLess(ScScoreOf(WithValue(sc_plan, j, b)), sc_score)

\* C2: whenever compute_plan_score returns a score for a plan vector against
\* a Reference of the reference builder, the score lies in [0, 1].
C2_ScoreInUnitInterval ==
    (sc_pc = "scored" /\ sc_score # NoScore) =>
        RLeq(RZero, sc_score) /\ RLeq(sc_score, ROne)

\* C2 witness: a plan scored over two constraints of different weight, with a
\* score strictly inside the interval.
C2_Witness ==
    /\ sc_pc = "scored"
    /\ sc_score # NoScore
    /\ RLess(RZero, sc_score) /\ RLess(sc_score, ROne)
    /\ \E j, k \in 1..Len(sc_plan) :
           /\ Usable(sc_plan[j][1], sc_reference.distributions, sc_reference.directions, sc_reference.weights)
           /\ Usable(sc_plan[k][1], sc_reference.distributions, sc_reference.directions, sc_reference.weights)
           /\ DictGet(sc_reference.weights, sc_plan[j][1]) # DictGet(sc_reference.weights, sc_plan[k][1])

\* the keys of a plan vector present in distributions, directions and weights
SharedKeys(plan, reference) ==
    DictKeys(plan) \cap DictKeys(reference.distributions)
        \cap DictKeys(reference.directions) \cap DictKeys(reference.weights)

\* C3: a plan vector with no key present in the reference's distributions,
\* directions and weights at the same time scores absent, never 0.
C3_ZeroOverlapAbsent ==
    (sc_pc = "scored" /\ SharedKeys(sc_plan, sc_reference) = {}) =>
        sc_score = NoScore /\ sc_score # RZero

\* C3 witness: a non-empty plan vector, one of whose keys has a distribution,
\* with no key usable, scored absent.
C3_Witness ==
    /\ sc_pc = "scored"
    /\ sc_plan # << >>
    /\ DictKeys(sc_plan) \cap DictKeys(sc_reference.distributions) # {}
    /\ SharedKeys(sc_plan, sc_reference) = {}
    /\ sc_score = NoScore

\* rank = (number of reference values <= v) clamped to [1, n]
CountRank(value, values) ==
    LET n == Len(values)
        count == Cardinality({i \in 1..n : values[i] <= value})
    IN  Max2(1, Min2(n, count))

\* the percentile as the claim states it
StatedPercentile(value, values, direction) ==
    LET n == Len(values)
        base == IF n = 1 THEN ROne ELSE Frac(CountRank(value, values) - 1, n - 1)
    IN  IF direction = "lower" THEN RSub(ROne, base) ELSE base

IsAscending(values) == \A i \in 1..(Len(values) - 1) : values[i] <= values[i + 1]

\* C4: against an ascending reference array of size n, the percentile of v is
\* base = 1 if n = 1, else (rank - 1)/(n - 1) with rank = (number of values
\* <= v) clamped to [1, n]; 1 - base for 'lower', base for 'higher'.
\* Distribution {10,20,30}, lower-is-better, v = 20 gives 0.5.
C4_PercentileFormula ==
    /\ sc_pc = "percentile" =>
           /\ IsAscending(ScDist(sc_query.key))
           /\ sc_query.result = StatedPercentile(sc_query.value, ScDist(sc_query.key), ScDir(sc_query.key))
    /\ compute_percentile(20, <<10, 20, 30>>, "lower") = <<1, 2>>

\* C4 witness: the example of the claim, computed against a reference built
\* from three plans.
C4_Witness ==
    /\ sc_pc = "percentile"
    /\ ScDist(sc_query.key) = <<10, 20, 30>>
    /\ ScDir(sc_query.key) = "lower"
    /\ sc_query.value = 20
    /\ sc_query.result = <<1, 2>>

\* C5: for a lower-is-better constraint, a plan whose achieved value is at or
\* below every value of the reference distribution (a value equal to the
\* minimum and repeated values included) never receives a percentile at the
\* bottom of the scale.
C5_AtOrBelowAllNotBottom ==
    (/\ sc_pc = "percentile"
     /\ ScDir(sc_query.key) = "lower"
     /\ \A i \in 1..Len(ScDist(sc_query.key)) : sc_query.value <= ScDist(sc_query.key)[i])
        => sc_query.result # RZero

RECURSIVE WeightedSum(_, _, _)
\* sum over the keys K of weight_k * percentile_k
WeightedSum(K, plan, reference) ==
    IF K = {} THEN RZero
    ELSE LET k == CHOOSE x \in K : TRUE
             p == StatedPercentile(DictGet(plan, k), DictGet(reference.distributions, k), DictGet(reference.directions, k))
         IN  RAdd(RMul(DictGet(reference.weights, k), p), WeightedSum(K \ {k}, plan, reference))

RECURSIVE WeightSum(_, _)
\* sum over the keys K of weight_k
WeightSum(K, reference) ==
    IF K = {} THEN RZero
    ELSE LET k == CHOOSE x \in K : TRUE
         IN  RAdd(DictGet(reference.weights, k), WeightSum(K \ {k}, reference))

\* C6: the plan score equals sum(weight_k * percentile_k) / sum(weight_k) over
\* exactly the keys of the plan vector present in distributions, directions
\* and weights; a key missing from any of the three contributes to neither sum.
C6_WeightedMeanOverSharedKeys ==
    sc_pc = "scored" =>
        LET K == SharedKeys(sc_plan, sc_reference)
        IN  IF K = {} THEN sc_score = NoScore
            ELSE sc_score = RDiv(WeightedSum(K, sc_plan, sc_reference), WeightSum(K, sc_reference))

\* C6 witness: a scored plan with a shared key and with keys missing from the
\* distributions, from the weights and from the reference altogether.
C6_Witness ==
    /\ sc_pc = "scored"
    /\ sc_score # NoScore
    /\ \E k \in DictKeys(sc_plan) : k \in DictKeys(sc_reference.weights) /\ k \notin DictKeys(sc_reference.distributions)
    /\ \E k \in DictKeys(sc_plan) : k \notin DictKeys(sc_reference.constraint_meta)

----------------------------------------------------------------------------
(* Stability experiment engine: helpers *)

\* int(round(n / d)) for n >= 0, d > 0: Python rounds halves to even
RoundHalfEven(n, d) ==
    LET q == n \div d
        r == n % d
    IN  IF 2 * r < d THEN q
        ELSE IF 2 * r > d THEN q + 1
        ELSE IF q % 2 = 0 THEN q ELSE q + 1

\* int(hashlib.md5(name.encode("utf-8")).hexdigest()[:8], 16)
Md5Prefix(name) ==
    CASE name = "A" -> 2143642224
      [] name = "C" -> 224524343
      [] name = "gamma" -> 95439063

stable_seed(name, base_seed) == base_seed + Md5Prefix(name)

\* The generator of np.random.default_rng is modelled as a linear
\* congruential generator: a deterministic stream that depends on the seed only.
LcgModulus == 65536
LcgMultiplier == 25173
LcgIncrement == 13849
SeedRng(seed) == seed % LcgModulus
NextRng(state) == (LcgMultiplier * state + LcgIncrement) % LcgModulus
\* the value in 0..n-1 read off a generator state
RngBelow(state, n) == (state \div 16) % n

\* mutant: one generator for the whole run, not re-seeded per protocol
ProtocolRngShared(name, base_seed, current) == current

\* rng = np.random.default_rng(stable_seed(protocol, args.seed))
ProtocolRng(name, base_seed, current) == SeedRng(stable_seed(name, base_seed))

Swap(seq, i, j) == [seq EXCEPT ![i] = seq[j], ![j] = seq[i]]

RECURSIVE ShuffleFrom(_, _, _)
\* Fisher-Yates from the last position down; returns <<permutation, state>>
ShuffleFrom(perm, i, state) ==
    IF i < 2 THEN <<perm, state>>
    ELSE LET next == NextRng(state)
         IN  ShuffleFrom(Swap(perm, i, 1 + RngBelow(next, i)), i - 1, next)

\* rng.permutation(n), as positions 1..n
rng_permutation(state, n) == ShuffleFrom(AsList([i \in 1..n |-> i]), n, state)

RECURSIVE IntegersFrom(_, _, _, _)
IntegersFrom(state, n, size, drawn) ==
    IF Len(drawn) = size THEN <<drawn, state>>
    ELSE LET next == NextRng(state)
         IN  IntegersFrom(next, n, size, Append(drawn, 1 + RngBelow(next, n)))

\* rng.integers(0, n, size=size), as positions 1..n; returns <<indices, state>>
rng_integers(state, n, size) == IntegersFrom(state, n, size, << >>)

\* df.iloc[idx]: the rows at the given positions, in that order
Iloc(rows, idx) == AsList([i \in 1..Len(idx) |-> rows[idx[i]]])

RECURSIVE SumAbsDiff(_, _, _)
SumAbsDiff(a, b, i) ==
    IF i > Len(a) THEN RZero
    ELSE RAdd(RAbs(RSub(a[i], b[i])), SumAbsDiff(a, b, i + 1))

\* float(np.mean(np.abs(sample_values - full_values)))
MeanAbsDiff(a, b) == RDiv(SumAbsDiff(a, b, 1), <<Len(a), 1>>)

\* np.sort of an array of scores
SortedScores(values) == SortSeq(values, RLess)

\* mutant: the second sorted array is paired from its upper end
WassersteinReversed(a_sorted, b_sorted, n) ==
    MeanAbsDiff(SubSeq(a_sorted, 1, n), AsList([i \in 1..n |-> b_sorted[n + 1 - i]]))

\* float(np.mean(np.abs(a_sorted - b_sorted))) over the first n of each
WassersteinOver(a_sorted, b_sorted, n) ==
    MeanAbsDiff(SubSeq(a_sorted, 1, n), SubSeq(b_sorted, 1, n))

wasserstein_distance(values_a, values_b) ==
    IF Len(values_a) = 0 \/ Len(values_b) = 0 THEN NaN
    ELSE WassersteinOver(SortedScores(values_a), SortedScores(values_b), Min2(Len(values_a), Len(values_b)))

----------------------------------------------------------------------------
(* Stability experiment engine: inputs *)

Result(tg263, structure, metric_display, objective, priority, goal_op, goal_value, achieved) ==
    [structure_tg263 |-> tg263, structure |-> structure,
     metric_display |-> metric_display, objective |-> objective,
     priority |-> priority, goal_operator |-> goal_op, goal_value |-> goal_value,
     variation_operator |-> None, variation_value |-> RawNone,
     achieved |-> achieved]

T_SpinalCord == <<"S", "p", "i", "n", "a", "l", " ", " ", "C", "o", "r", "d">>
T_spinal_cord == <<"s", "p", "i", "n", "a", "l", " ", "c", "o", "r", "d">>
T_cord == <<"c", "o", "r", "d">>
T_PTV_High == <<"P", "T", "V", "_", "H", "i", "g", "h">>
T_Heart == <<"H", "e", "a", "r", "t">>
T_dmax_padded == <<"d", "m", "a", "x", " ">>
Op_LE_padded == <<" ", "<", "=">>

ResPtv(v) == Result(T_PTV, None, T_D95, None, RawInt(1), Op_GE, RawInt(20), RawInt(v))
ResPtvFuzzy(v) == Result(None, T_PTV_High, T_D95, None, RawStr(<<"1">>), Op_GE, RawStr(<<"2", "0">>), RawInt(v))
ResCord(v) == Result(<< >>, T_SpinalCord, None, T_dmax_padded, RawInt(2), Op_LE_padded, RawInt(30), RawStr(NatStr(v)))
ResCordUnparsed == Result(None, T_Cord, T_Dmax, None, RawInt(2), Op_LE, RawInt(30), RawStr(<<"x">>))
ResCordZero(v) == Result(None, T_Cord, T_Dmax, None, RawInt(0), Op_LE, RawInt(30), RawInt(v))
ResHeart == Result(T_Heart, None, T_Dmax, None, RawInt(2), Op_LE, RawInt(30), RawInt(10))

\* the results lists a plan of the dataset may carry
PlanBoth == <<ResPtv(10), ResCord(20)>>
PlanPtvOnly == <<ResPtvFuzzy(30), ResPtv(20)>>
PlanCordOnly == <<ResCordUnparsed, ResCord(30), ResCord(10), ResCordZero(20)>>
PlanNone == <<ResHeart>>
ResultsMenu == {PlanBoth, PlanPtvOnly, PlanCordOnly}

ProtocolNames == {"A", "C"}

\* protocol "A" has 1..MaxPlans plans of the menu, protocol "C" none or three
Datasets ==
    {[p \in ProtocolNames |-> IF p = "A" THEN a ELSE c] :
        a \in SeqsUpTo(ResultsMenu, MaxPlans) \ {<< >>},
        c \in {<< >>, <<PlanBoth, PlanNone, PlanCordOnly>>}}

Selected(constraints, source) == [constraints |-> constraints, source |-> source]
NotFound == Selected(<< >>, "missing")
Scorable == Selected(<<PtvHigher1, CordLower2>>, "standard_protocols_name")
Unweighted == Selected(<<CordLower0, LungNoPriority>>, "protocols")

Catalogs(ds) ==
    {[p \in ProtocolNames |-> IF p = "A" THEN a ELSE c] :
        a \in {NotFound, Scorable, Unweighted},
        c \in IF ds["C"] = << >> THEN {NotFound} ELSE {NotFound, Scorable}}

EngineAliasMap == << <<T_cord, T_Cord>>, <<T_spinal_cord, T_Cord>> >>

Configs ==
    [sample_sizes : {<<1>>, <<1, 2>>}, bootstraps : {2}, test_fraction : {<<1, 5>>},
     test_min : {0, 2}, min_valid : {1, 2}, seed : {7}]
        \cup [sample_sizes : {<< >>}, bootstraps : {2}, test_fraction : {<<1, 5>>},
              test_min : {2}, min_valid : {1}, seed : {7}]
        \cup [sample_sizes : {<<1>>}, bootstraps : {2}, test_fraction : {<<1, 5>>},
              test_min : {2}, min_valid : {0}, seed : {7}]

Present(ds) == {p \in ProtocolNames : ds[p] # << >>}

\* plans["protocol"].value_counts().index.tolist() restricted to the
\* protocols S: most plans first, protocols with equal counts in either order
ValueCountsOrders(ds, S) ==
    {o \in [1..Cardinality(S) -> S] :
        /\ \A i, j \in 1..Cardinality(S) : i # j => o[i] # o[j]
        /\ \A i, j \in 1..Cardinality(S) : i < j => Len(ds[o[i]]) >= Len(ds[o[j]])}

NoWork ==
    [protocol |-> "", source |-> "", context |-> NoContext, plans_total |-> 0, eligible_count |-> 0,
     test |-> << >>, train |-> << >>, sizes |-> << >>, size_idx |-> 0,
     bootstrap_id |-> 0, constraints_total |-> 0, constraints_with_values |-> 0,
     sample_size |-> 0, sample_idx |-> << >>, reference_sample |-> NoReference]
NoFirstRun ==
    [order |-> << >>, raw_rows |-> << >>, protocol_rows |-> << >>,
     test_split_rows |-> << >>, skipped_rows |-> << >>]

EmptyInputs ==
    /\ dataset = [p \in ProtocolNames |-> << >>]
    /\ catalog = [p \in ProtocolNames |-> NotFound]
    /\ alias_map = << >>
    /\ config \in {c \in Configs : c.sample_sizes = << >>}

ControlInit ==
    /\ protocol_order = << >>
    /\ pos = 0
    /\ rng = 0
    /\ work = NoWork
    /\ raw_rows = << >>
    /\ protocol_rows = << >>
    /\ test_split_rows = << >>
    /\ skipped_rows = << >>
    /\ written = {}
    /\ run = "first"
    /\ first_run = NoFirstRun

\* the scorer harness is idle while the engine runs, and conversely
EngineIdle ==
    /\ env = [dataset |-> FALSE, source |-> FALSE]
    /\ EmptyInputs
    /\ ControlInit
    /\ pc = "idle"

Init ==
    /\ ScInit
    /\ FnIdle
    /\ HeapIdle
    /\ \/ /\ env = [dataset |-> TRUE, source |-> TRUE]
          /\ dataset \in Datasets
          /\ catalog \in Catalogs(dataset)
          /\ alias_map = EngineAliasMap
          /\ config \in Configs
       \/ /\ env \in {[dataset |-> FALSE, source |-> TRUE], [dataset |-> TRUE, source |-> FALSE]}
          /\ EmptyInputs
    /\ ControlInit
    /\ pc = "start"

----------------------------------------------------------------------------
(* Stability experiment engine: main() *)

\* load_approved_plans and get_mongo_client raise when their input is missing;
\* otherwise the catalogs are loaded and the protocol order is computed
LoadInputs ==
    /\ pc = "start"
    /\ IF env.dataset /\ env.source
       THEN /\ protocol_order' \in ValueCountsOrders(dataset, Present(dataset))
            /\ pc' = "loop"
       ELSE /\ protocol_order' = protocol_order
            /\ pc' = "aborted"
    /\ written' = {"step3_config"}
    /\ UNCHANGED <<sc_vars, fn_vars, hp_vars, in_vars, pos, rng, work, raw_rows, protocol_rows, test_split_rows, skipped_rows, run, first_run>>

\* group = plans[plans["protocol"] == protocol]
Group(protocol) ==
    AsList([i \in 1..Len(dataset[protocol]) |-> [plan_id |-> i, results |-> dataset[protocol][i]]])

Context(protocol) == build_constraint_context(catalog[protocol].constraints)

Vectors(rows) == AsList([i \in 1..Len(rows) |-> rows[i].plan_constraints])

PlanConstraintsDf(protocol, context) ==
    build_plan_constraints_df(Group(protocol), context.constraint_lookup, alias_map, context.protocol_structure_map)

\* mutant: the first plan of the rows is left out of the reference
ReferenceForOthers(context, rows) ==
    build_reference_from_plan_constraints(Vectors(IF rows = << >> THEN rows ELSE Tail(rows)),
                                          context.constraint_lookup, context.directions, context.weights)

ReferenceFor(context, rows) ==
    build_reference_from_plan_constraints(Vectors(rows), context.constraint_lookup, context.directions, context.weights)

\* plan_constraints_df with its "plan_score_full" column
WithFullScores(df, scores) ==
    AsList([i \in 1..Len(df) |->
        [plan_id |-> df[i].plan_id, plan_constraints |-> df[i].plan_constraints,
         plan_score_full |-> scores[i]]])

ScoredDf(df, reference) == WithFullScores(df, score_plan_constraints_df(Vectors(df), reference))

HasFullScore(row) == row.plan_score_full # NoScore

\* mutant: plans without a full-population score stay in the experiment
EligibleUnfiltered(scored) == scored

Eligible(scored) == SelectSeq(scored, HasFullScore)

MinOf(sizes) == CHOOSE x \in {sizes[i] : i \in 1..Len(sizes)} : \A i \in 1..Len(sizes) : x <= sizes[i]

\* mutant: one plan fewer than the smallest size is reserved for training
MinTrainShort == IF config.sample_sizes = << >> THEN 0 ELSE MinOf(config.sample_sizes) - 1

\* min(sample_sizes) if sample_sizes else 0
MinTrain == IF config.sample_sizes = << >> THEN 0 ELSE MinOf(config.sample_sizes)

\* max(args.test_min, int(round(args.test_fraction * eligible_count)))
WantedTestSize(eligible_count) ==
    Max2(config.test_min, RoundHalfEven(config.test_fraction[1] * eligible_count, config.test_fraction[2]))

MaxTest(eligible_count) == Max2(eligible_count - MinTrain, 0)

\* mutant: the wanted test size is not capped by the training budget
TestSizeUncapped(eligible_count) == WantedTestSize(eligible_count)

TestSize(eligible_count) == Min2(WantedTestSize(eligible_count), MaxTest(eligible_count))

\* mutant: the training set is the whole permutation
SplitAtWhole(eligible, shuffled, test_size) ==
    <<Iloc(eligible, SubSeq(shuffled[1], 1, Min2(test_size, Len(eligible)))),
      Iloc(eligible, shuffled[1]),
      shuffled[2]>>

\* the split of the eligible plans: <<test_df, train_df, generator state>>;
\* permuted[:test_size] and permuted[test_size:] stop at the end of the array
SplitAt(eligible, shuffled, test_size) ==
    <<Iloc(eligible, SubSeq(shuffled[1], 1, Min2(test_size, Len(eligible)))),
      Iloc(eligible, SubSeq(shuffled[1], Min2(test_size, Len(eligible)) + 1, Len(eligible))),
      shuffled[2]>>

Split(protocol, eligible) ==
    SplitAt(eligible, rng_permutation(ProtocolRng(protocol, config.seed, rng), Len(eligible)), TestSize(Len(eligible)))

\* mutant: every configured size is attempted
AvailableSizesUnfiltered(train_size) == config.sample_sizes

\* [size for size in sample_sizes if size <= len(train_df)]
AvailableSizes(train_size) ==
    LET Fits(size) == size <= train_size
    IN  SelectSeq(config.sample_sizes, Fits)

\* why the protocol is skipped, or "none"
SkipReason(protocol, eligible, train_df) ==
    IF catalog[protocol].constraints = << >> THEN "missing_constraints"
    ELSE IF Len(eligible) = 0 THEN "no_scored_plans"
    ELSE IF MaxTest(Len(eligible)) = 0 THEN "insufficient_plans_for_split"
    ELSE IF TestSize(Len(eligible)) <= 0 THEN "invalid_test_size"
    ELSE IF AvailableSizes(Len(train_df)) = << >> THEN "insufficient_train_plans"
    ELSE "none"

\* the locals of one iteration of the protocol loop, up to the bootstrap loop
LocalsFromSplit(protocol, context, reference_full, eligible, split) ==
    [context |-> context,
     reference_full |-> reference_full,
     eligible |-> eligible,
     test_df |-> split[1],
     train_df |-> split[2],
     rng |-> split[3],
     reason |-> SkipReason(protocol, eligible, split[2])]

LocalsFromEligible(protocol, context, reference_full, eligible) ==
    LocalsFromSplit(protocol, context, reference_full, eligible, Split(protocol, eligible))

LocalsFromReference(protocol, context, plan_constraints_df, reference_full) ==
    LocalsFromEligible(protocol, context, reference_full, Eligible(ScoredDf(plan_constraints_df, reference_full)))

LocalsFromDf(protocol, context, plan_constraints_df) ==
    LocalsFromReference(protocol, context, plan_constraints_df, ReferenceFor(context, plan_constraints_df))

LocalsFromContext(protocol, context) ==
    LocalsFromDf(protocol, context, PlanConstraintsDf(protocol, context))

LoopLocals(protocol) == LocalsFromContext(protocol, Context(protocol))

\* mutant: a skipped protocol leaves no row
SkippedRowDropped(rows, protocol, reason) == rows

SkippedRowAdded(rows, protocol, reason) ==
    Append(rows, [protocol |-> protocol, plans |-> Len(dataset[protocol]),
                  reason |-> reason, source |-> catalog[protocol].source])

SkipWith(protocol, locals) ==
    /\ locals.reason # "none"
    /\ skipped_rows' = SkippedRowAdded(skipped_rows, protocol, locals.reason)
    /\ rng' = IF locals.reason = "insufficient_train_plans" THEN locals.rng ELSE rng

\* one iteration of the protocol loop that ends in a `continue`
SkipProtocol ==
    /\ pc = "loop"
    /\ pos < Len(protocol_order)
    /\ SkipWith(protocol_order[pos + 1], LoopLocals(protocol_order[pos + 1]))
    /\ pos' = pos + 1
    /\ UNCHANGED <<sc_vars, fn_vars, hp_vars, in_vars, protocol_order, pc, work, raw_rows, protocol_rows, test_split_rows, written, run, first_run>>

TestSplitRows(protocol, test_df) ==
    AsList([i \in 1..Len(test_df) |-> [protocol |-> protocol, plan_id |-> test_df[i].plan_id]])

BeginWith(protocol, locals) ==
    /\ locals.reason = "none"
    /\ rng' = locals.rng
    /\ test_split_rows' = test_split_rows \o TestSplitRows(protocol, locals.test_df)
    /\ work' = [protocol |-> protocol,
                source |-> catalog[protocol].source,
                context |-> locals.context,
                plans_total |-> Len(dataset[protocol]),
                eligible_count |-> Len(locals.eligible),
                test |-> locals.test_df,
                train |-> locals.train_df,
                sizes |-> AvailableSizes(Len(locals.train_df)),
                size_idx |-> 1,
                bootstrap_id |-> 0,
                constraints_total |-> Len(locals.context.constraint_lookup),
                constraints_with_values |-> Len(locals.reference_full.distributions),
                sample_size |-> 0,
                sample_idx |-> << >>,
                reference_sample |-> NoReference]

\* one iteration of the protocol loop up to the start of the bootstrap loop
BeginProtocol ==
    /\ pc = "loop"
    /\ pos < Len(protocol_order)
    /\ BeginWith(protocol_order[pos + 1], LoopLocals(protocol_order[pos + 1]))
    /\ pc' = "bootstrap"
    /\ UNCHANGED <<sc_vars, fn_vars, hp_vars, in_vars, protocol_order, pos, raw_rows, protocol_rows, skipped_rows, written, run, first_run>>

\* mutant: every draw is retained
RetainedAlways(valid_count, min_valid) == TRUE

\* not (valid_count < args.min_valid)
Retained(valid_count, min_valid) == ~(valid_count < min_valid)

\* the positions of the test plans scored under both references
ValidPositions(sample_scores, full_scores) ==
    {i \in 1..Len(sample_scores) : sample_scores[i] # NoScore /\ full_scores[i] # NoScore}

RECURSIVE Masked(_, _, _)
\* scores[valid_mask]
Masked(scores, valid, i) ==
    IF i > Len(scores) THEN << >>
    ELSE IF i \in valid THEN <<scores[i]>> \o Masked(scores, valid, i + 1)
    ELSE Masked(scores, valid, i + 1)

FullScores(test_df) == AsList([i \in 1..Len(test_df) |-> test_df[i].plan_score_full])

\* mae = float(np.mean(np.abs(sample_values - full_values))): NaN over no value
MaeOf(sample_scores, full_scores, valid) ==
    IF valid = {} THEN NaN
    ELSE MeanAbsDiff(Masked(sample_scores, valid, 1), Masked(full_scores, valid, 1))

\* wass = wasserstein_distance(sample_values, full_values)
WassersteinOf(sample_scores, full_scores, valid) ==
    wasserstein_distance(Masked(sample_scores, valid, 1), Masked(full_scores, valid, 1))

\* the stability record of a draw
RawRow(sample_size, sample_scores, full_scores, valid) ==
    [protocol |-> work.protocol,
     N |-> sample_size,
     bootstrap_id |-> work.bootstrap_id,
     train_size |-> Len(work.train),
     test_size |-> Len(work.test),
     valid_plans |-> Cardinality(valid),
     mae |-> MaeOf(sample_scores, full_scores, valid),
     wasserstein |-> WassersteinOf(sample_scores, full_scores, valid)]

\* the end of the loop body: the record is appended unless the draw is dropped
DrawScored(sample_size, sample_scores, full_scores, valid) ==
    raw_rows' = IF Retained(Cardinality(valid), config.min_valid)
                THEN Append(raw_rows, RawRow(sample_size, sample_scores, full_scores, valid))
                ELSE raw_rows

DrawCompared(sample_size, sample_scores, full_scores) ==
    DrawScored(sample_size, sample_scores, full_scores, ValidPositions(sample_scores, full_scores))

\* the loop counters after a draw, and the locals the draw leaves behind
NextDraw(last, sample_size, sample_idx, reference_sample) ==
    [work EXCEPT !.size_idx = IF last THEN @ + 1 ELSE @,
                 !.bootstrap_id = IF last THEN 0 ELSE @ + 1,
                 !.sample_size = sample_size,
                 !.sample_idx = sample_idx,
                 !.reference_sample = reference_sample]

DrawReferenced(sample_size, sample_idx, reference_sample) ==
    /\ work' = NextDraw(work.bootstrap_id + 1 >= config.bootstraps, sample_size, sample_idx, reference_sample)
    /\ DrawCompared(sample_size,
                    score_plan_constraints_df(Vectors(work.test), reference_sample),
                    FullScores(work.test))

\* mutant: a plan drawn more than once is kept once
SampleDfDistinct(train_df, sample_idx) ==
    Iloc(train_df, SelectSeq(AsList([i \in 1..Len(sample_idx) |->
                                        IF \E j \in 1..(i - 1) : sample_idx[j] = sample_idx[i] THEN 0 ELSE sample_idx[i]]),
                             LAMBDA x : x # 0))

\* sample_df = train_df.iloc[sample_idx].reset_index(drop=True)
SampleDf(train_df, sample_idx) == Iloc(train_df, sample_idx)

DrawSampled(sample_size, drawn) ==
    /\ rng' = drawn[2]
    /\ DrawReferenced(sample_size, drawn[1], ReferenceFor(work.context, SampleDf(work.train, drawn[1])))

\* one bootstrap draw: the body of the two nested loops
BootstrapDraw ==
    /\ pc = "bootstrap"
    /\ work.size_idx <= Len(work.sizes)
    /\ work.bootstrap_id < config.bootstraps
    /\ DrawSampled(work.sizes[work.size_idx], rng_integers(rng, Len(work.train), work.sizes[work.size_idx]))
    /\ UNCHANGED <<sc_vars, fn_vars, hp_vars, in_vars, protocol_order, pos, pc, protocol_rows, test_split_rows, skipped_rows, written, run, first_run>>

\* the end of a protocol's loop iteration: its protocol-summary row
FinishProtocol ==
    /\ pc = "bootstrap"
    /\ work.size_idx > Len(work.sizes) \/ config.bootstraps <= 0
    /\ protocol_rows' = Append(protocol_rows,
           [protocol |-> work.protocol, source |-> work.source,
            plans_total |-> work.plans_total, plans_eligible |-> work.eligible_count,
            train_size |-> Len(work.train), test_size |-> Len(work.test),
            constraints_total |-> work.constraints_total,
            constraints_with_values |-> work.constraints_with_values,
            sample_sizes |-> work.sizes])
    /\ pos' = pos + 1
    /\ pc' = "loop"
    /\ work' = NoWork
    /\ UNCHANGED <<sc_vars, fn_vars, hp_vars, in_vars, protocol_order, rng, raw_rows, test_split_rows, skipped_rows, written, run, first_run>>

\* the tables written after the loop when raw_rows is not empty
AllTables ==
    {"step3_config", "step3_stability_raw", "step3_stability_summary", "step3_nstar_mae",
     "step3_protocol_summary", "step3_test_split"}
        \cup (IF skipped_rows # << >> THEN {"step3_protocols_skipped"} ELSE {})

\* after the loop: the tables are written and the summary printed
WriteTables ==
    /\ pc = "loop"
    /\ pos = Len(protocol_order)
    /\ raw_rows # << >>
    /\ written' = AllTables
    /\ pc' = "done"
    /\ UNCHANGED <<sc_vars, fn_vars, hp_vars, in_vars, protocol_order, pos, rng, work, raw_rows, protocol_rows, test_split_rows, skipped_rows, run, first_run>>

\* after the loop with no stability record: the raw table is written, then
\* summary_df.sort_values(["protocol", "N"]) on the column-less empty frame
\* raises KeyError
WriteTablesFails ==
    /\ pc = "loop"
    /\ pos = Len(protocol_order)
    /\ raw_rows = << >>
    /\ written' = {"step3_config", "step3_stability_raw"}
    /\ pc' = "crashed"
    /\ UNCHANGED <<sc_vars, fn_vars, hp_vars, in_vars, protocol_order, pos, rng, work, raw_rows, protocol_rows, test_split_rows, skipped_rows, run, first_run>>

\* a completed run is run again on the same inputs and configuration, with
\* the dataset restricted to some of its protocols
SecondRun ==
    /\ pc = "done"
    /\ run = "first"
    /\ first_run' = [order |-> protocol_order, raw_rows |-> raw_rows,
                     protocol_rows |-> protocol_rows,
                     test_split_rows |-> test_split_rows, skipped_rows |-> skipped_rows]
    /\ \E S \in SUBSET Present(dataset) :
           /\ S # {}
           /\ protocol_order' \in ValueCountsOrders(dataset, S)
    /\ run' = "second"
    /\ pos' = 0
    /\ pc' = "loop"
    /\ rng' = 0
    /\ work' = NoWork
    /\ raw_rows' = << >>
    /\ protocol_rows' = << >>
    /\ test_split_rows' = << >>
    /\ skipped_rows' = << >>
    /\ written' = {"step3_config"}
    /\ UNCHANGED <<sc_vars, fn_vars, hp_vars, in_vars>>

Next ==
    \/ LoadInputs
    \/ SkipProtocol
    \/ BeginProtocol
    \/ BootstrapDraw
    \/ FinishProtocol
    \/ WriteTables
    \/ WriteTablesFails

Spec == Init /\ [][Next]_vars

SpecTwoRuns == Init /\ [][Next \/ SecondRun]_vars

\* the scorer harness alone: the engine stays idle
ScoreInit ==
    /\ ScInit
    /\ EngineIdle
    /\ FnIdle
    /\ HeapIdle

SpecScore == ScoreInit /\ [][ScNext]_vars

----------------------------------------------------------------------------
(* Properties of the stability experiment engine (Spec, SpecTwoRuns) *)

\* the rows of a table that belong to one protocol, in table order
ForProtocol(rows, protocol) ==
    LET Is(row) == row.protocol = protocol
    IN  SelectSeq(rows, Is)

\* the records of one (protocol, N) group of raw_rows
GroupSize(rows, protocol, sample_size) ==
    Cardinality({i \in 1..Len(rows) : rows[i].protocol = protocol /\ rows[i].N = sample_size})

SkipReasons ==
    {"missing_constraints", "no_scored_plans", "insufficient_plans_for_split",
     "invalid_test_size", "insufficient_train_plans"}

RunEnded == pc \in {"done", "crashed"}

\* C7: every stability record of raw_rows has min_valid <= valid_plans <=
\* test_size; a (protocol, N, bootstrap_id) triple appears in at most one
\* record, and a (protocol, N) group holds at most `bootstraps` records.
C7_BootstrapSizeInvariant ==
    /\ \A i \in 1..Len(raw_rows) :
           /\ config.min_valid <= raw_rows[i].valid_plans
           /\ raw_rows[i].valid_plans <= raw_rows[i].test_size
           /\ GroupSize(raw_rows, raw_rows[i].protocol, raw_rows[i].N) <= config.bootstraps
    /\ \A i, j \in 1..Len(raw_rows) :
           (/\ raw_rows[i].protocol = raw_rows[j].protocol
            /\ raw_rows[i].N = raw_rows[j].N
            /\ raw_rows[i].bootstrap_id = raw_rows[j].bootstrap_id) => i = j

\* C7 witness: a finished run in which one draw of a (protocol, N) group was
\* retained and another draw of the same group was dropped.
C7_Witness ==
    /\ pc = "done"
    /\ \E i \in 1..Len(raw_rows) :
           GroupSize(raw_rows, raw_rows[i].protocol, raw_rows[i].N) < config.bootstraps

\* C8: when the program is run again with the same inputs, configuration and
\* seed, on any non-empty subset of the protocols in any admissible order,
\* every protocol of the second run gets the rows it had in the first run in
\* each table; with the same protocol order the tables are identical.
C8_DeterministicPerProtocol ==
    (run = "second" /\ RunEnded) =>
        /\ \A i \in 1..Len(protocol_order) :
               /\ ForProtocol(raw_rows, protocol_order[i]) = ForProtocol(first_run.raw_rows, protocol_order[i])
               /\ ForProtocol(test_split_rows, protocol_order[i]) = ForProtocol(first_run.test_split_rows, protocol_order[i])
               /\ ForProtocol(protocol_rows, protocol_order[i]) = ForProtocol(first_run.protocol_rows, protocol_order[i])
               /\ ForProtocol(skipped_rows, protocol_order[i]) = ForProtocol(first_run.skipped_rows, protocol_order[i])
        /\ protocol_order = first_run.order =>
               /\ raw_rows = first_run.raw_rows
               /\ test_split_rows = first_run.test_split_rows
               /\ protocol_rows = first_run.protocol_rows
               /\ skipped_rows = first_run.skipped_rows

\* C8 witness: a finished second run that processed two protocols in the
\* opposite order of the first run, both protocols having stability records.
C8_Witness ==
    /\ run = "second"
    /\ pc = "done"
    /\ Len(protocol_order) = 2
    /\ first_run.order = <<protocol_order[2], protocol_order[1]>>
    /\ \A i \in 1..2 : ForProtocol(raw_rows, protocol_order[i]) # << >>

\* C9: every processed protocol has exactly one terminal outcome, a
\* protocol-summary row or a skipped row with a reason tag, and a protocol
\* not yet finished has neither; a skipped protocol has no stability record,
\* no test-split row and no protocol-summary row; the run ends only after
\* every protocol of the order was processed.
C9_OneTerminalOutcome ==
    /\ \A i \in 1..Len(protocol_order) :
           IF i <= pos
           THEN /\ Len(ForProtocol(protocol_rows, protocol_order[i])) + Len(ForProtocol(skipped_rows, protocol_order[i])) = 1
                /\ \A k \in 1..Len(skipped_rows) :
                       skipped_rows[k].protocol = protocol_order[i] =>
                           /\ skipped_rows[k].reason \in SkipReasons
                           /\ ForProtocol(raw_rows, protocol_order[i]) = << >>
                           /\ ForProtocol(test_split_rows, protocol_order[i]) = << >>
                           /\ ForProtocol(protocol_rows, protocol_order[i]) = << >>
           ELSE /\ ForProtocol(protocol_rows, protocol_order[i]) = << >>
                /\ ForProtocol(skipped_rows, protocol_order[i]) = << >>
    /\ RunEnded => pos = Len(protocol_order)

\* C9 witness: a finished run whose first protocol was skipped and whose
\* second protocol was scored.
C9_Witness ==
    /\ pc = "done"
    /\ Len(protocol_order) = 2
    /\ ForProtocol(skipped_rows, protocol_order[1]) # << >>
    /\ ForProtocol(protocol_rows, protocol_order[2]) # << >>
    /\ ForProtocol(raw_rows, protocol_order[2]) # << >>

\* C10: the run aborts only when the dataset or the data source is missing;
\* when both are available the run never fails after the protocol loop, and
\* a run that ended has written every output table.
C10_OnlyPreconditionsAbort ==
    /\ pc = "aborted" => ~(env.dataset /\ env.source)
    /\ (env.dataset /\ env.source /\ pc \notin {"start", "loop", "bootstrap"}) =>
           /\ pc = "done"
           /\ written = AllTables

\* the eligible plans of a protocol: those scored under the full reference
EligibleOf(context, plan_constraints_df) ==
    Eligible(ScoredDf(plan_constraints_df, ReferenceFor(context, plan_constraints_df)))

EligibleCount(protocol) == Len(EligibleOf(Context(protocol), PlanConstraintsDf(protocol, Context(protocol))))

\* min(max(test_min, round(test_fraction * E)), E - min(sample_sizes))
StatedTestSize(E) ==
    Min2(Max2(config.test_min, RoundHalfEven(config.test_fraction[1] * E, config.test_fraction[2])),
         E - MinOf(config.sample_sizes))

\* a protocol that got a split: its eligible, test and training counts
SplitAsStated(protocol, E, test_size, train_size) ==
    /\ config.sample_sizes # << >>
    /\ E - MinOf(config.sample_sizes) > 0
    /\ test_size = StatedTestSize(E)
    /\ train_size = E - test_size
    /\ train_size >= MinOf(config.sample_sizes)
    /\ Len(ForProtocol(test_split_rows, protocol)) = test_size

\* a skipped protocol: the reason agrees with the budget E - min(sample_sizes)
SkipAsStated(row) ==
    /\ row.reason = "insufficient_plans_for_split" =>
           /\ config.sample_sizes # << >>
           /\ EligibleCount(row.protocol) - MinOf(config.sample_sizes) <= 0
           /\ ForProtocol(test_split_rows, row.protocol) = << >>
    /\ row.reason \in {"invalid_test_size", "insufficient_train_plans"} /\ config.sample_sizes # << >> =>
           EligibleCount(row.protocol) - MinOf(config.sample_sizes) > 0
    /\ row.reason = "insufficient_train_plans" => config.sample_sizes = << >>

\* C16: a protocol with E eligible plans gets a test set of size
\* min(max(test_min, round(test_fraction * E)), E - min(sample_sizes)) and at
\* least min(sample_sizes) training plans; it is skipped with reason
\* 'insufficient_plans_for_split', without a split, exactly when
\* E - min(sample_sizes) <= 0.
C16_TestSetSize ==
    /\ \A i \in 1..Len(protocol_rows) :
           SplitAsStated(protocol_rows[i].protocol, protocol_rows[i].plans_eligible,
                         protocol_rows[i].test_size, protocol_rows[i].train_size)
    /\ pc = "bootstrap" =>
           SplitAsStated(work.protocol, work.eligible_count, Len(work.test), Len(work.train))
    /\ \A i \in 1..Len(skipped_rows) : SkipAsStated(skipped_rows[i])

\* a protocol whose wanted test size, 2, is capped to 1 by the training
\* budget, and a protocol skipped because no budget remains
C16_Witness ==
    /\ \E i \in 1..Len(protocol_rows) :
           /\ protocol_rows[i].plans_eligible = 2
           /\ config.test_min = 2
           /\ protocol_rows[i].test_size = 1
           /\ protocol_rows[i].train_size = 1
    /\ \E i \in 1..Len(skipped_rows) : skipped_rows[i].reason = "insufficient_plans_for_split"

\* how many of the drawn training rows report value v for the key
Contributed(train_df, sample_idx, key_str, v) ==
    Cardinality({j \in 1..Len(sample_idx) :
        /\ DictHas(train_df[sample_idx[j]].plan_constraints, key_str)
        /\ DictGet(train_df[sample_idx[j]].plan_constraints, key_str) = v})

\* how many times the distribution of the key holds v
Held(distributions, key_str, v) ==
    IF DictHas(distributions, key_str)
    THEN Cardinality({i \in 1..Len(DictGet(distributions, key_str)) : DictGet(distributions, key_str)[i] = v})
    ELSE 0

\* every value some plan of the rows reports for some constraint
ReportedValues(rows) ==
    UNION {DictValues(rows[i].plan_constraints) : i \in 1..Len(rows)}

\* the sample size the loop was at when it made its last draw
AttemptedSize ==
    IF work.bootstrap_id > 0 THEN work.sizes[work.size_idx] ELSE work.sizes[work.size_idx - 1]

PlanIds(rows) == {rows[i].plan_id : i \in 1..Len(rows)}

\* the last draw of the protocol in the bootstrap loop: N positions of the
\* training set, and a sample reference holding exactly the drawn plans'
\* values, each as often as its plan was drawn
DrawAsStated ==
    (pc = "bootstrap" /\ work.sample_size > 0) =>
        /\ work.sample_size = AttemptedSize
        /\ Len(work.sample_idx) = work.sample_size
        /\ \A j \in 1..Len(work.sample_idx) : work.sample_idx[j] \in 1..Len(work.train)
        /\ PlanIds(work.test) \cap PlanIds(work.train) = {}
        /\ \A i \in 1..Len(work.reference_sample.distributions) :
               DictHas(work.context.constraint_lookup, work.reference_sample.distributions[i][1])
        /\ \A i \in 1..Len(work.context.constraint_lookup) :
               \A v \in ReportedValues(work.train) \cup ReportedValues(work.test) :
                   Held(work.reference_sample.distributions, work.context.constraint_lookup[i][1], v)
                       = Contributed(work.train, work.sample_idx, work.context.constraint_lookup[i][1], v)
        /\ \A i \in 1..Len(work.reference_sample.distributions) :
               /\ Len(work.reference_sample.distributions[i][2]) <= work.sample_size
               /\ \A k \in 1..Len(work.reference_sample.distributions[i][2]) :
                      work.reference_sample.distributions[i][2][k] \in ReportedValues(work.train)

\* a step inside the bootstrap loop of a protocol keeps its test set, with its
\* full-reference scores, its training set and its constraint context
SameTestSet ==
    (pc = "bootstrap" /\ pc' = "bootstrap") =>
        /\ work'.protocol = work.protocol
        /\ work'.test = work.test
        /\ FullScores(work'.test) = FullScores(work.test)
        /\ work'.train = work.train
        /\ work'.context = work.context

\* C18: each draw takes exactly N positions of the training set, with
\* replacement; the sample reference holds the values of the drawn training
\* plans, a plan drawn k times contributing k times and a test plan never;
\* the test set and its full-reference scores are the same for every draw and
\* every N of the protocol.
C18_BootstrapDraws == []DrawAsStated /\ [][SameTestSet]_vars

\* a draw of two positions that takes the same training plan twice: its value
\* is held twice by the sample reference
C18_Witness ==
    /\ pc = "bootstrap"
    /\ work.sample_size = 2
    /\ Len(work.train) >= 2
    /\ work.sample_idx[1] = work.sample_idx[2]
    /\ \E i \in 1..Len(work.reference_sample.distributions) :
           /\ Len(work.reference_sample.distributions[i][2]) = 2
           /\ work.reference_sample.distributions[i][2][1] = work.reference_sample.distributions[i][2][2]

\* the plans of a protocol with their score under the reference built from
\* all of the protocol's plans
FullyScored(context, plan_constraints_df) ==
    ScoredDf(plan_constraints_df, ReferenceFor(context, plan_constraints_df))

FullPopulationScores(protocol) ==
    FullyScored(Context(protocol), PlanConstraintsDf(protocol, Context(protocol)))

\* the rows are plans of the protocol that have a full-population score
AllScored(rows, scored) ==
    \A i \in 1..Len(rows) :
        \E k \in 1..Len(scored) :
            /\ scored[k].plan_id = rows[i].plan_id
            /\ scored[k].plan_score_full # NoScore
            /\ rows[i].plan_score_full = scored[k].plan_score_full

BothScored(test_df, train_df, scored) == AllScored(test_df, scored) /\ AllScored(train_df, scored)

NoneScored(scored) == \A k \in 1..Len(scored) : scored[k].plan_score_full = NoScore

\* train and test hold only scored plans; a protocol is skipped with
\* no_scored_plans exactly when it has constraints and no scored plan
OnlyScoredPlans ==
    /\ pc = "bootstrap" => BothScored(work.test, work.train, FullPopulationScores(work.protocol))
    /\ \A i \in 1..Len(skipped_rows) :
           IF catalog[skipped_rows[i].protocol].constraints = << >>
           THEN skipped_rows[i].reason # "no_scored_plans"
           ELSE skipped_rows[i].reason = "no_scored_plans" <=>
                    NoneScored(FullPopulationScores(skipped_rows[i].protocol))
    /\ \A i \in 1..Len(skipped_rows) :
           skipped_rows[i].reason = "no_scored_plans" =>
               ForProtocol(test_split_rows, skipped_rows[i].protocol) = << >>

\* the step that skips a protocol for no_scored_plans draws nothing from the
\* generator and splits nothing
SkippedBeforeSplit ==
    (/\ Len(skipped_rows') = Len(skipped_rows) + 1
     /\ skipped_rows'[Len(skipped_rows')].reason = "no_scored_plans") =>
        /\ rng' = rng
        /\ test_split_rows' = test_split_rows
        /\ work' = work

\* C22: the train and test sets contain only plans with a score under the
\* full-population reference of the protocol's plans; a protocol none of whose
\* plans has one is skipped with reason 'no_scored_plans' before any split
\* or random draw.
C22_EligibilityFilter == []OnlyScoredPlans /\ [][SkippedBeforeSplit]_vars

\* a protocol in its bootstrap loop one of whose plans has no score and is in
\* neither set, after another protocol was skipped for no_scored_plans
C22_Witness ==
    /\ pc = "bootstrap"
    /\ work.eligible_count > 0
    /\ work.eligible_count < work.plans_total
    /\ Len(work.test) + Len(work.train) = work.eligible_count
    /\ \E i \in 1..Len(skipped_rows) : skipped_rows[i].reason = "no_scored_plans"

\* the configured sample sizes
Configured == {config.sample_sizes[i] : i \in 1..Len(config.sample_sizes)}

\* the training-set size of a protocol that reaches the split
TrainSizeOf(E) == E - TestSize(E)

\* the sizes the bootstrap loop goes through are the configured sizes that fit
\* the training set, in the configured order
SizesFiltered(sizes, train_size) ==
    /\ \A i \in 1..Len(sizes) : sizes[i] \in Configured /\ sizes[i] <= train_size
    /\ \A N \in Configured : N <= train_size => \E i \in 1..Len(sizes) : sizes[i] = N
    /\ sizes # << >>

SampleSizesAsStated ==
    /\ pc = "bootstrap" =>
           /\ SizesFiltered(work.sizes, Len(work.train))
           /\ work.sample_size > 0 => work.sample_size \in Configured /\ work.sample_size <= Len(work.train)
    /\ \A i \in 1..Len(raw_rows) :
           /\ raw_rows[i].N \in Configured
           /\ raw_rows[i].N <= raw_rows[i].train_size
    /\ \A i \in 1..Len(protocol_rows) :
           SizesFiltered(protocol_rows[i].sample_sizes, protocol_rows[i].train_size)
    /\ \A i \in 1..Len(skipped_rows) :
           skipped_rows[i].reason = "insufficient_train_plans" =>
               /\ \A N \in Configured : N > TrainSizeOf(EligibleCount(skipped_rows[i].protocol))
               /\ ForProtocol(test_split_rows, skipped_rows[i].protocol) = << >>
               /\ ForProtocol(raw_rows, skipped_rows[i].protocol) = << >>

\* C23: a bootstrap draw of size N is attempted only if N is a configured
\* sample size with N <= train_size, so every stability record has
\* N <= train_size; a protocol none of whose configured sizes qualifies is
\* skipped with reason 'insufficient_train_plans' and has no test-split rows.
C23_SampleSizeFilter == SampleSizesAsStated

\* a protocol with one training plan under the configured sizes 1 and 2: its
\* draws of size 1 were made and recorded, size 2 was never attempted
C23_Witness ==
    /\ config.sample_sizes = <<1, 2>>
    /\ \E i \in 1..Len(protocol_rows) :
           /\ protocol_rows[i].train_size = 1
           /\ protocol_rows[i].sample_sizes = <<1>>
           /\ \E k \in 1..Len(raw_rows) :
                  raw_rows[k].protocol = protocol_rows[i].protocol /\ raw_rows[k].N = 1

\* with configured sizes, the training set of a split protocol holds at least
\* the smallest of them, which is the first size the loop attempts
SmallestSizeFits(sizes, train_size) ==
    /\ train_size >= MinOf(config.sample_sizes)
    /\ \E i \in 1..Len(sizes) : sizes[i] = MinOf(config.sample_sizes)

TrainBudgetKept ==
    (config.sample_sizes # << >> /\ \A N \in Configured : N > 0) =>
        /\ \A i \in 1..Len(skipped_rows) : skipped_rows[i].reason # "insufficient_train_plans"
        /\ pc = "bootstrap" => SmallestSizeFits(work.sizes, Len(work.train))
        /\ \A i \in 1..Len(protocol_rows) :
               SmallestSizeFits(protocol_rows[i].sample_sizes, protocol_rows[i].train_size)
        /\ \A p \in ProtocolNames :
               ForProtocol(test_split_rows, p) # << >> =>
                   \/ pc = "bootstrap" /\ work.protocol = p
                   \/ ForProtocol(protocol_rows, p) # << >>

\* C25: with a non-empty list of positive sample sizes every protocol that
\* passes the split has train_size >= min(sample_sizes), the smallest
\* configured size is attempted, and no protocol is skipped with reason
\* 'insufficient_train_plans'.
C25_TrainBudget == TrainBudgetKept

\* a protocol whose two eligible plans are split 1 and 1 although two test
\* plans were asked for: the training set holds exactly min(sample_sizes)
C25_Witness ==
    /\ config.sample_sizes # << >>
    /\ config.test_min = 2
    /\ pc = "bootstrap"
    /\ work.eligible_count = 2
    /\ Len(work.train) = MinOf(config.sample_sizes)
    /\ work.sizes = <<MinOf(config.sample_sizes)>>
    /\ work.sample_size = MinOf(config.sample_sizes)

\* the plans of the protocol that have a full-population score
ScoredIds(scored) ==
    {scored[k].plan_id : k \in {j \in 1..Len(scored) : scored[j].plan_score_full # NoScore}}

\* no plan is held twice
Distinct(rows) == Cardinality(PlanIds(rows)) = Len(rows)

\* test_df and train_df partition the eligible plans
Partition(test_df, train_df, eligible_ids) ==
    /\ Distinct(test_df)
    /\ Distinct(train_df)
    /\ PlanIds(test_df) \cap PlanIds(train_df) = {}
    /\ PlanIds(test_df) \cup PlanIds(train_df) = eligible_ids
    /\ Len(test_df) >= 1

SplitPartitions ==
    /\ pc = "bootstrap" =>
           /\ Partition(work.test, work.train, ScoredIds(FullPopulationScores(work.protocol)))
           /\ Len(work.test) + Len(work.train) = work.eligible_count
           /\ PlanIds(ForProtocol(test_split_rows, work.protocol)) = PlanIds(work.test)
    /\ \A i \in 1..Len(protocol_rows) :
           /\ protocol_rows[i].test_size + protocol_rows[i].train_size = protocol_rows[i].plans_eligible
           /\ protocol_rows[i].test_size >= 1
           /\ Len(ForProtocol(test_split_rows, protocol_rows[i].protocol)) = protocol_rows[i].test_size
    /\ \A i \in 1..Len(raw_rows) : raw_rows[i].test_size >= 1

\* C27: for every protocol that is split, the test set and the training set
\* are disjoint, their union is exactly the eligible plans, and
\* test_size + train_size = eligible_count with test_size >= 1.
C27_SplitPartition == SplitPartitions

\* a protocol of three eligible plans split into one test plan and two
\* training plans, not in the order of the dataset
C27_Witness ==
    /\ pc = "bootstrap"
    /\ work.eligible_count = 3
    /\ Len(work.test) = 1
    /\ Len(work.train) = 2
    /\ work.train[1].plan_id > work.train[2].plan_id

\* the constraint vector holds a key that has a direction and a weight
HasWeightedKey(plan_constraints, context) ==
    \E j \in 1..Len(plan_constraints) :
        /\ DictHas(context.directions, plan_constraints[j][1])
        /\ DictHas(context.weights, plan_constraints[j][1])

\* the plans of the protocol in the split are those with a weighted key
SplitHoldsWeighted(df, context, split_ids) ==
    \A i \in 1..Len(df) :
        df[i].plan_id \in split_ids <=> HasWeightedKey(df[i].plan_constraints, context)

NoneWeighted(df, context) ==
    \A i \in 1..Len(df) : ~HasWeightedKey(df[i].plan_constraints, context)

EligibleAsStated ==
    /\ pc = "bootstrap" =>
           SplitHoldsWeighted(PlanConstraintsDf(work.protocol, work.context), work.context,
                              PlanIds(work.test) \cup PlanIds(work.train))
    /\ \A i \in 1..Len(skipped_rows) :
           skipped_rows[i].reason = "no_scored_plans" =>
               NoneWeighted(PlanConstraintsDf(skipped_rows[i].protocol, Context(skipped_rows[i].protocol)),
                            Context(skipped_rows[i].protocol))

\* C26: a plan is eligible, that is has a full-population score, if and only
\* if its constraint vector holds at least one key that has both a direction
\* and a weight.
C26_EligibleIffWeightedKey == EligibleAsStated

\* a plan with an empty vector left out of the split of its protocol, after a
\* protocol whose plans report values for keys without a weight was skipped
C26_Witness ==
    /\ pc = "bootstrap"
    /\ work.eligible_count > 0
    /\ work.eligible_count < work.plans_total
    /\ \E i \in 1..Len(skipped_rows) :
           /\ skipped_rows[i].reason = "no_scored_plans"
           /\ \E k \in 1..Len(dataset[skipped_rows[i].protocol]) :
                  PlanConstraintsDf(skipped_rows[i].protocol, Context(skipped_rows[i].protocol))[k].plan_constraints # << >>

----------------------------------------------------------------------------
(* Function harness: the pure functions of plan_score_pipeline.py and of    *)
(* step3_stability_experiment.py called on inputs drawn from bounded sets   *)

\* longest list of constraint definitions given to build_constraint_lookup
MaxDefs == 3

\* the constraint definitions a raw catalog may hold
DefMenu == {PtvHigher1, PtvHigher1Dup, CordLower2, CordLower3, LungEq1, LungNoPriority}

CallBuildConstraintLookup ==
    /\ fn_call = NoCall
    /\ \E constraints \in SeqsUpTo(DefMenu, MaxDefs) :
           /\ fn_call' = [op |-> "build_constraint_lookup", constraints |-> constraints]
           /\ fn_result' = build_constraint_lookup(constraints)
    /\ UNCHANGED <<sc_vars, eng_vars, hp_vars>>

\* longest structure vocabulary given to resolve_structure
MaxVocab == 2

T_Lung_L == <<"L", "u", "n", "g", " ", "L">>
T_Lung_R == <<"L", "u", "n", "g", "_", "R">>
T_lung_r_sup == <<"l", "u", "n", "g", " ", "r", " ", "s", "u", "p">>
T_ptv_high == <<"p", "t", "v", " ", " ", "h", "i", "g", "h">>
T_CORD_padded == <<" ", "C", "O", "R", "D", " ">>
T_blank == <<" ", " ">>
T_dashes == <<"-", "-">>

\* the raw structure labels a result record may carry
RawLabels ==
    {None, << >>, T_blank, T_dashes, T_cord, T_CORD_padded, T_SpinalCord, T_Lung,
     T_lung_r_sup, T_PTV, T_ptv_high, T_Heart}

\* the structure names a protocol's constraints may use
StructureNames == {T_Cord, T_PTV_High, T_Lung_L, T_Lung_R}

\* the documents of custom_structure_aliases
DocCord == [canonical |-> T_Cord, aliases |-> <<T_spinal_cord, T_SpinalCord>>]
DocLung == [canonical |-> T_Lung_L, aliases |-> <<T_Lung, T_blank>>]
DocNoCanonical == [canonical |-> None, aliases |-> <<T_PTV>>]
AliasTables ==
    {load_alias_map(docs) : docs \in {<< >>, <<DocCord>>, <<DocCord, DocLung>>, <<DocNoCanonical, DocLung>>}}

\* the structure map of a protocol whose constraints name the structures
VocabularyOf(structures) ==
    build_protocol_structure_map(AsList([i \in 1..Len(structures) |-> [structure |-> structures[i]]]))

CallResolveStructure ==
    /\ fn_call = NoCall
    /\ \E raw_name \in RawLabels, aliases \in AliasTables, structures \in SeqsUpTo(StructureNames, MaxVocab) :
           /\ fn_call' = [op |-> "resolve_structure", raw_name |-> raw_name, alias_map |-> aliases,
                          protocol_structure_map |-> VocabularyOf(structures)]
           /\ fn_result' = resolve_structure(raw_name, aliases, VocabularyOf(structures))
    /\ UNCHANGED <<sc_vars, eng_vars, hp_vars>>

\* the text values normalize_text is called on: labels, names, missing values
TextValues == RawLabels \cup StructureNames \cup {T_ptv_padded, T_dmax_padded}

CallNormalizeText ==
    /\ fn_call = NoCall
    /\ \E value \in TextValues :
           /\ fn_call' = [op |-> "normalize_text", value |-> value]
           /\ fn_result' = normalize_text(value)
    /\ UNCHANGED <<sc_vars, eng_vars, hp_vars>>

\* longest results list given to extract_plan_constraints
MaxRecords == 3

\* the result records a plan may carry
RecordMenu == {ResPtvFuzzy(30), ResCord(30), ResCord(20), ResCordUnparsed, ResHeart}

\* the constraint contexts of the protocols of the catalog
ContextMenu == {build_constraint_context(<<PtvHigher1, CordLower2>>), build_constraint_context(<<PtvHigher1, CordLower3>>)}

CallExtractPlanConstraints ==
    /\ fn_call = NoCall
    /\ \E results \in SeqsUpTo(RecordMenu, MaxRecords), context \in ContextMenu, aliases \in {<< >>, EngineAliasMap} :
           /\ fn_call' = [op |-> "extract_plan_constraints", results |-> results,
                          constraint_lookup |-> context.constraint_lookup, alias_map |-> aliases,
                          protocol_structure_map |-> context.protocol_structure_map]
           /\ fn_result' = extract_plan_constraints(results, context.constraint_lookup, aliases,
                                                    context.protocol_structure_map)
    /\ UNCHANGED <<sc_vars, eng_vars, hp_vars>>

T_LUNG_padded == <<" ", "L", "U", "N", "G">>
T_lung == <<"l", "u", "n", "g">>
T_Lung_v2 == <<"L", "u", "n", "g", " ", "v", "2">>
T_lung_v2 == <<"l", "u", "n", "g", " ", "v", "2">>
T_Std == <<"S", "t", "d">>
T_std == <<"s", "t", "d">>
T_s1 == <<"s", "1">>
T_s2 == <<"s", "2">>

\* the dicts whose entries are some of the given ones, in their order
SubDicts(entries) ==
    {SelectSeq(entries, LAMBDA kv : kv[1] \in keys) : keys \in SUBSET DictKeys(entries)}

\* build_standard_constraints by normalized name and by id, build_protocol_constraints
ByNameMenu == SubDicts(<< <<T_lung, <<PtvHigher1>>>>, <<T_std, <<CordLower2>>>> >>)
ByIdMenu == SubDicts(<< <<T_s1, <<CordLower3>>>> >>)
ProtocolConstraintsMenu == SubDicts(<< <<T_lung, <<LungEq1>>>>, <<T_lung_v2, <<CordLower1>>>> >>)

\* build_protocol_standard_ref_map: the links of the protocol and of its raw name
StandardRef(standard_id, standard_name) == [standard_id |-> standard_id, standard_name |-> standard_name]
RefMenu == {StandardRef(None, None), StandardRef(T_s1, None), StandardRef(None, T_Std),
            StandardRef(T_s1, T_Std), StandardRef(T_s2, T_Std)}
RefMapMenu ==
    {<< >>} \cup {<< <<T_lung, r>> >> : r \in RefMenu} \cup {<< <<T_lung_v2, r>> >> : r \in RefMenu}
        \cup {<< <<T_lung, r>>, <<T_lung_v2, q>> >> : r, q \in RefMenu}

CallSelectProtocolConstraints ==
    /\ fn_call = NoCall
    /\ \E protocol \in {T_Lung, T_LUNG_padded}, protocol_raw \in {None, << >>, T_Lung_v2},
          by_name \in ByNameMenu, by_id \in ByIdMenu, protocol_constraints \in ProtocolConstraintsMenu,
          standard_ref_map \in RefMapMenu :
           /\ fn_call' = [op |-> "select_protocol_constraints", protocol |-> protocol,
                          protocol_raw |-> protocol_raw, standard_constraints_by_name |-> by_name,
                          standard_constraints_by_id |-> by_id, protocol_constraints |-> protocol_constraints,
                          standard_ref_map |-> standard_ref_map]
           /\ fn_result' = select_protocol_constraints(protocol, protocol_raw, by_name, by_id,
                                                       protocol_constraints, standard_ref_map)
    /\ UNCHANGED <<sc_vars, eng_vars, hp_vars>>

\* most sample sizes of a protocol in the summary table
MaxSampled == 3

\* a protocol with fewer summary rows gets no N*
MinFitPoints == 3

\* the sample sizes a summary row may have
SampledMenu == {1, 2, 4, 10, 50, 100, 400}

\* group.sort_values("N")["N"]: distinct sample sizes in ascending order
SampledLists ==
    {n_values \in UNION {[1..k -> SampledMenu] : k \in MinFitPoints..MaxSampled} :
        \A i \in 1..(Len(n_values) - 1) : n_values[i] < n_values[i + 1]}

CallEstimateNStar ==
    /\ fn_call = NoCall
    /\ \E n_values \in SampledLists, intercept \in {Frac(0, 1), Frac(1, 10)},
          slope \in {Frac(-3, 1), Frac(-2, 5), Frac(0, 1), Frac(2, 5), Frac(3, 1)},
          plateau_fraction \in {Frac(0, 1), Frac(1, 20), Frac(1, 2), Frac(1, 1)} :
           /\ fn_call' = [op |-> "estimate_n_star", n_values |-> n_values, intercept |-> intercept,
                          slope |-> slope, plateau_fraction |-> plateau_fraction]
           /\ fn_result' = estimate_n_star(n_values, intercept, slope, plateau_fraction)
    /\ UNCHANGED <<sc_vars, eng_vars, hp_vars>>

T_Cord_bars == <<"C", "o", "r", "d", "|", "|">>
T_bars == <<"|", "|">>

\* the normalized keys constraint_key builds from a menu of raw fields: absent,
\* blank and named structures and metrics, a name that holds the separator
KeyMenu ==
    {constraint_key(structure, metric_display, Op_LE, goal_value, variation_operator, NoNum, <<2>>) :
        structure \in {None, T_blank, T_Cord, T_Cord_bars},
        metric_display \in {None, T_Dmax, T_bars},
        goal_value \in {NoNum, <<30>>},
        variation_operator \in {None, T_blank}}

CallConstraintKeyToStr ==
    /\ fn_call = NoCall
    /\ \E first \in KeyMenu, second \in KeyMenu :
           /\ fn_call' = [op |-> "constraint_key_to_str", first |-> first, second |-> second]
           /\ fn_result' = <<constraint_key_to_str(first), constraint_key_to_str(second)>>
    /\ UNCHANGED <<sc_vars, eng_vars, hp_vars>>

\* the constraint lists of a protocol: all weighted, none weighted, mixed
ConstraintsMenu == {<<PtvHigher1, CordLower2>>, <<CordLower0, LungNoPriority>>, <<PtvHigher1, CordLower0>>}

\* the plans of a protocol: 1..MaxPlans results lists, numbered in row order
PlansMenu ==
    {AsList([i \in 1..Len(rs) |-> [plan_id |-> i, results |-> rs[i]]]) :
        rs \in SeqsUpTo(ResultsMenu \cup {PlanNone}, MaxPlans) \ {<< >>}}

CallBuildPopulationReference ==
    /\ fn_call = NoCall
    /\ \E plans \in PlansMenu, constraints \in ConstraintsMenu, aliases \in {<< >>, EngineAliasMap} :
           /\ fn_call' = [op |-> "build_population_reference", plans |-> plans,
                          constraints |-> constraints, alias_map |-> aliases]
           /\ fn_result' = build_population_reference(plans, constraints, aliases)
    /\ UNCHANGED <<sc_vars, eng_vars, hp_vars>>

\* most test plans whose two scores are compared
MaxScores == 2

\* the score of a test plan under a reference: none, 0, 1/2 or 1
ScoreMenu == {NoScore, Frac(0, 1), Frac(1, 2), Frac(1, 1)}

\* the end of the body of the bootstrap loop: the metrics of a retained draw
Compared(sample_scores, full_scores, valid, min_valid) ==
    IF Retained(Cardinality(valid), min_valid)
    THEN [retained |-> TRUE, valid_plans |-> Cardinality(valid),
          mae |-> MaeOf(sample_scores, full_scores, valid),
          wasserstein |-> WassersteinOf(sample_scores, full_scores, valid)]
    ELSE [retained |-> FALSE]

CallCompareScores ==
    /\ fn_call = NoCall
    /\ \E k \in 0..MaxScores, min_valid \in {0, 1} :
           \E sample_scores \in [1..k -> ScoreMenu], full_scores \in [1..k -> ScoreMenu] :
               /\ fn_call' = [op |-> "compare_scores", sample_scores |-> AsList(sample_scores),
                              full_scores |-> AsList(full_scores), min_valid |-> min_valid]
               /\ fn_result' = Compared(AsList(sample_scores), AsList(full_scores),
                                        ValidPositions(sample_scores, full_scores), min_valid)
    /\ UNCHANGED <<sc_vars, eng_vars, hp_vars>>

\* most plan vectors given to build_reference_from_plan_constraints
MaxVectors == 3

\* a plan vector over the constraints PtvHigher1 and CordLower2 and a foreign key;
\* 0 stands for a key the plan does not report, cord_first for the dict order
PlanVector(ptv, cord, foreign, cord_first) ==
    LET keys == LookupKeys(build_constraint_lookup(<<PtvHigher1, CordLower2>>))
        p == IF ptv = 0 THEN << >> ELSE <<<<keys[1], ptv>>>>
        c == IF cord = 0 THEN << >> ELSE <<<<keys[2], cord>>>>
        f == IF foreign = 0 THEN << >> ELSE <<<<ForeignKey, foreign>>>>
    IN  (IF cord_first THEN c \o p ELSE p \o c) \o f

PlanVectorMenu ==
    {PlanVector(0, 0, 0, FALSE), PlanVector(30, 0, 0, FALSE), PlanVector(10, 0, 20, FALSE),
     PlanVector(10, 20, 0, TRUE), PlanVector(0, 0, 30, FALSE)}

\* the contexts a reference is built under: both constraints, or the cord one only
ReferenceContextMenu ==
    {build_constraint_context(<<PtvHigher1, CordLower2>>), build_constraint_context(<<CordLower2>>)}

CallBuildReference ==
    /\ fn_call = NoCall
    /\ \E plan_vectors \in SeqsUpTo(PlanVectorMenu, MaxVectors), context \in ReferenceContextMenu :
           /\ fn_call' = [op |-> "build_reference_from_plan_constraints", plan_vectors |-> plan_vectors,
                          constraint_lookup |-> context.constraint_lookup,
                          directions |-> context.directions, weights |-> context.weights]
           /\ fn_result' = build_reference_from_plan_constraints(plan_vectors, context.constraint_lookup,
                                                                 context.directions, context.weights)
    /\ UNCHANGED <<sc_vars, eng_vars, hp_vars>>

----------------------------------------------------------------------------
(* Properties of the pure functions (SpecCalls) *)

\* a dict as the set of its <<key, value>> pairs
Items(d) == {d[i] : i \in 1..Len(d)}

\* the rearrangements of a sequence
Rearranged(seq) ==
    {AsList([i \in 1..Len(seq) |-> seq[q[i]]]) : q \in Permutations(1..Len(seq))}

\* position of the first definition of the list that serializes to a key
FirstWithKey(constraints, key_str) ==
    CHOOSE i \in 1..Len(constraints) :
        /\ ConstraintKeyStr(constraints[i]) = key_str
        /\ \A j \in 1..(i - 1) : ConstraintKeyStr(constraints[j]) # key_str

DistinctKeys(constraints) ==
    \A i, j \in 1..Len(constraints) :
        ConstraintKeyStr(constraints[i]) = ConstraintKeyStr(constraints[j]) => i = j

\* C11: the lookup holds exactly the serialized keys of the input, each with
\* the metadata of the first definition in input order that produces it; when
\* no two definitions share a key, every rearrangement of the input gives the
\* same key-to-metadata mapping.
C11_FirstDefinitionWins ==
    fn_call.op = "build_constraint_lookup" =>
        /\ DictKeys(fn_result) = {ConstraintKeyStr(fn_call.constraints[i]) : i \in 1..Len(fn_call.constraints)}
        /\ \A i, j \in 1..Len(fn_result) : fn_result[i][1] = fn_result[j][1] => i = j
        /\ \A k \in DictKeys(fn_result) :
               DictGet(fn_result, k) = ConstraintMeta(fn_call.constraints[FirstWithKey(fn_call.constraints, k)])
        /\ DistinctKeys(fn_call.constraints) =>
               \A other \in Rearranged(fn_call.constraints) :
                   Items(build_constraint_lookup(other)) = Items(fn_result)

\* C11 witness: a list of three definitions whose first two serialize to the
\* same key with different metadata.
C11_Witness ==
    /\ fn_call.op = "build_constraint_lookup"
    /\ Len(fn_call.constraints) = 3
    /\ ConstraintKeyStr(fn_call.constraints[1]) = ConstraintKeyStr(fn_call.constraints[2])
    /\ ConstraintMeta(fn_call.constraints[1]) # ConstraintMeta(fn_call.constraints[2])
    /\ ConstraintKeyStr(fn_call.constraints[3]) # ConstraintKeyStr(fn_call.constraints[1])

\* C12: a non-absent name returned by resolve_structure is a structure name
\* of the protocol's vocabulary, a value of protocol_structure_map.
C12_ResolvedInVocabulary ==
    (fn_call.op = "resolve_structure" /\ fn_result # None) =>
        fn_result \in DictValues(fn_call.protocol_structure_map)

\* the tokens of a raw label, none for a missing label
LabelTokens(raw_name) == IF raw_name = None THEN {} ELSE TokenSet(raw_name)

\* numerator and denominator of the token-overlap ratio of candidate i
Shared(raw_name, structure_map, i) ==
    Cardinality(LabelTokens(raw_name) \cap TokenSet(structure_map[i][2]))
Longest(raw_name, structure_map, i) ==
    Max2(Cardinality(LabelTokens(raw_name)), Cardinality(TokenSet(structure_map[i][2])))

\* ratio of candidate j <= ratio of candidate k, by cross-multiplication
RatioLeq(raw_name, structure_map, j, k) ==
    Shared(raw_name, structure_map, j) * Longest(raw_name, structure_map, k)
        <= Shared(raw_name, structure_map, k) * Longest(raw_name, structure_map, j)

\* candidate k has a positive ratio, no candidate has a higher one and no
\* earlier candidate has an equal one
FirstBest(raw_name, structure_map, k) ==
    /\ Shared(raw_name, structure_map, k) > 0
    /\ \A j \in 1..Len(structure_map) : RatioLeq(raw_name, structure_map, j, k)
    /\ \A j \in 1..(k - 1) : ~RatioLeq(raw_name, structure_map, k, j)

\* the three steps in order, for a call with these arguments and this result
ResolvedInOrder(raw_name, aliases, structure_map, result) ==
    IF DictHas(aliases, normalize_text(raw_name))
    THEN result = DictGet(aliases, normalize_text(raw_name))
    ELSE IF DictHas(structure_map, normalize_text(raw_name))
    THEN result = DictGet(structure_map, normalize_text(raw_name))
    ELSE IF \E k \in 1..Len(structure_map) : Shared(raw_name, structure_map, k) > 0
    THEN \E k \in 1..Len(structure_map) :
             /\ FirstBest(raw_name, structure_map, k)
             /\ result = structure_map[k][2]
    ELSE result = None

\* C20: resolve_structure returns the alias-table entry of the normalized
\* label when there is one, else the vocabulary entry with that exact
\* normalized name, else the vocabulary candidate with the highest positive
\* token-overlap ratio, the first in iteration order among equal maxima, and
\* absent when no candidate has a positive ratio.
C20_ResolutionOrder ==
    fn_call.op = "resolve_structure" =>
        ResolvedInOrder(fn_call.raw_name, fn_call.alias_map, fn_call.protocol_structure_map, fn_result)

\* a label that is no alias and no exact name ties between two candidates and
\* the first one is returned
C20_Witness ==
    /\ fn_call.op = "resolve_structure"
    /\ fn_call.raw_name = T_Lung
    /\ fn_call.alias_map = << >>
    /\ fn_call.protocol_structure_map = VocabularyOf(<<T_Lung_R, T_Lung_L>>)
    /\ fn_result = T_Lung_R

\* a text with no character other than white space
IsBlank(text) == \A i \in 1..Len(text) : IsSpace(text[i])

\* the characters of a text that are not white space, in order
Unspaced(text) == SelectSeq(text, LAMBDA c : ~IsSpace(c))

\* trimmed, lower-cased, white space collapsed to single spaces
IsCanonicalFormOf(result, value) ==
    /\ result # << >>
    /\ result[1] # " " /\ result[Len(result)] # " "
    /\ \A i \in 1..Len(result) : result[i] # "\t"
    /\ \A i \in 1..(Len(result) - 1) : ~(result[i] = " " /\ result[i + 1] = " ")
    /\ LowerText(result) = result
    /\ Unspaced(result) = Unspaced(LowerText(value))
    /\ Len(SplitWs(result)) = Len(SplitWs(value))

\* C15: normalize_text returns the trimmed, lower-cased, single-space form of
\* a non-empty text, and the absent value for missing input and for empty or
\* whitespace-only input.
C15_NormalizeText ==
    fn_call.op = "normalize_text" =>
        IF fn_call.value = None \/ IsBlank(fn_call.value)
        THEN fn_result = None
        ELSE IsCanonicalFormOf(fn_result, fn_call.value)

\* the serialized key of every record of the call, in list order
RecordKeys(call) ==
    AsList([i \in 1..Len(call.results) |->
        ResultKeyStr(call.results[i], call.alias_map, call.protocol_structure_map)])

\* the records that map to key_str and carry a parseable achieved value
Reporting(call, record_keys, key_str) ==
    {i \in 1..Len(call.results) :
        record_keys[i] = key_str /\ parse_numeric(call.results[i].achieved) # NoNum}

\* the achieved value of the first record of the set
FirstAchieved(call, records) ==
    parse_numeric(call.results[CHOOSE i \in records : \A j \in records : i <= j].achieved)[1]

\* the vector holds, for the key, the first reported value or nothing
FirstReported(call, vector, key_str, records) ==
    IF records = {}
    THEN ~DictHas(vector, key_str)
    ELSE DictHas(vector, key_str) /\ DictGet(vector, key_str) = FirstAchieved(call, records)

FirstRecordWins(call, vector, record_keys) ==
    /\ \A i \in 1..Len(vector) : DictHas(call.constraint_lookup, vector[i][1])
    /\ \A i, j \in 1..Len(vector) : vector[i][1] = vector[j][1] => i = j
    /\ \A i \in 1..Len(call.constraint_lookup) :
           FirstReported(call, vector, call.constraint_lookup[i][1],
                         Reporting(call, record_keys, call.constraint_lookup[i][1]))

\* C19: the vector returned by extract_plan_constraints has only keys of the
\* constraint index, each once, and the value of key k is the achieved value
\* of the first record in list order that maps to k with a parseable achieved
\* value; a key no such record maps to is not in the vector.
C19_FirstRecordWins ==
    fn_call.op = "extract_plan_constraints" =>
        FirstRecordWins(fn_call, fn_result, RecordKeys(fn_call))

\* an unparseable record, then two records of the same constraint with
\* different values: the vector holds the first parseable one
C19_Witness ==
    /\ fn_call.op = "extract_plan_constraints"
    /\ fn_call.results = <<ResCordUnparsed, ResCord(30), ResCord(20)>>
    /\ Len(fn_result) = 1
    /\ fn_result[1][2] = 30

\* the link of a candidate name selects by standard id
LinkById(call, name) ==
    /\ DictHas(call.standard_ref_map, NormOr(name))
    /\ Truthy(DictGet(call.standard_ref_map, NormOr(name)).standard_id)
    /\ DictHas(call.standard_constraints_by_id, DictGet(call.standard_ref_map, NormOr(name)).standard_id)

\* the link of a candidate name selects by standard name
LinkByName(call, name) ==
    /\ DictHas(call.standard_ref_map, NormOr(name))
    /\ Truthy(DictGet(call.standard_ref_map, NormOr(name)).standard_name)
    /\ DictHas(call.standard_constraints_by_name,
               NormOr(DictGet(call.standard_ref_map, NormOr(name)).standard_name))

\* the names whose link is followed: the protocol and its raw name, if any
Linked(call) ==
    {name \in {call.protocol} \cup (IF Truthy(call.protocol_raw) THEN {call.protocol_raw} ELSE {}) :
        LinkById(call, name) \/ LinkByName(call, name)}

\* what the link of a name supplies: by standard id, and then by standard name
ViaLink(call, name) ==
    IF LinkById(call, name)
    THEN Selection(DictGet(call.standard_constraints_by_id,
                           DictGet(call.standard_ref_map, NormOr(name)).standard_id), "standard_protocols_id")
    ELSE Selection(DictGet(call.standard_constraints_by_name,
                           NormOr(DictGet(call.standard_ref_map, NormOr(name)).standard_name)),
                   "standard_protocols_ref_name")

\* the raw name is in the custom-protocol catalog
RawInCatalog(call) ==
    Truthy(call.protocol_raw) /\ DictHas(call.protocol_constraints, NormOr(call.protocol_raw))

\* the first source that matches, in the order of precedence
FirstSource(call, result) ==
    IF DictHas(call.standard_constraints_by_name, NormOr(call.protocol))
    THEN result = Selection(DictGet(call.standard_constraints_by_name, NormOr(call.protocol)), "standard_protocols_name")
    ELSE IF DictHas(call.protocol_constraints, NormOr(call.protocol))
    THEN result = Selection(DictGet(call.protocol_constraints, NormOr(call.protocol)), "protocols")
    ELSE IF Linked(call) # {}
    THEN \E name \in Linked(call) : result = ViaLink(call, name)
    ELSE IF RawInCatalog(call)
    THEN result = Selection(DictGet(call.protocol_constraints, NormOr(call.protocol_raw)), "protocols_raw")
    ELSE result = Selection(<< >>, "missing")

\* C13: select_protocol_constraints returns the first source that matches in
\* the order standard catalog by name, custom catalog by name, standard
\* reference link (by standard id, then by standard name), custom catalog by
\* raw name, and otherwise no constraints tagged 'missing'.
C13_SelectionPrecedence ==
    fn_call.op = "select_protocol_constraints" => FirstSource(fn_call, fn_result)

\* the link matches both by id and by name and the raw name is in the custom
\* catalog, while neither catalog has the protocol name: the id wins
C13_Witness ==
    /\ fn_call.op = "select_protocol_constraints"
    /\ ~DictHas(fn_call.standard_constraints_by_name, NormOr(fn_call.protocol))
    /\ ~DictHas(fn_call.protocol_constraints, NormOr(fn_call.protocol))
    /\ LinkById(fn_call, fn_call.protocol) /\ LinkByName(fn_call, fn_call.protocol)
    /\ RawInCatalog(fn_call)
    /\ fn_result = Selection(<<CordLower3>>, "standard_protocols_id")

\* p(N) <= target for the fit of the call, where target lies the plateau
\* fraction of the way from the intercept to the highest prediction p(M)
WithinPlateau(call, N) ==
    \E M \in Items(call.n_values) :
        /\ \A K \in Items(call.n_values) :
               SurdLeq(Surd(call.intercept, call.slope, K), Surd(call.intercept, call.slope, M))
        /\ SurdLeq(Surd(call.intercept, call.slope, N),
                   Surd(call.intercept, RMul(call.plateau_fraction, call.slope), M))

\* C17: estimate_n_star returns the smallest sampled N whose prediction
\* intercept + slope / sqrt(N) is at most the target, and the largest sampled
\* N when no sampled N is.
C17_NStarSelection ==
    fn_call.op = "estimate_n_star" =>
        IF \E N \in Items(fn_call.n_values) : WithinPlateau(fn_call, N)
        THEN /\ WithinPlateau(fn_call, fn_result)
             /\ fn_result \in Items(fn_call.n_values)
             /\ \A N \in Items(fn_call.n_values) : WithinPlateau(fn_call, N) => fn_result <= N
        ELSE /\ fn_result \in Items(fn_call.n_values)
             /\ \A N \in Items(fn_call.n_values) : N <= fn_result

\* the example: intercept 0.10, slope 0.40, plateau fraction 0.05 over
\* N = [10, 50, 100]; no prediction reaches the target and N* = 100
C17_Witness ==
    /\ fn_call.op = "estimate_n_star"
    /\ fn_call.n_values = <<10, 50, 100>>
    /\ fn_call.intercept = Frac(1, 10) /\ fn_call.slope = Frac(2, 5)
    /\ fn_call.plateau_fraction = Frac(1, 20)
    /\ \A N \in Items(fn_call.n_values) : ~WithinPlateau(fn_call, N)
    /\ fn_result = 100

\* N * plateau_fraction^2 >= N_min
Plateaued(N, plateau_fraction, N_min) ==
    RLeq(Frac(N_min, 1), RMul(RMul(plateau_fraction, plateau_fraction), Frac(N, 1)))

Smallest(S) == CHOOSE x \in S : \A y \in S : x <= y

Largest(S) == CHOOSE x \in S : \A y \in S : y <= x

\* N* from the sign of the slope and the set of sizes alone
NStarBySign(sizes, slope_positive, plateau_fraction) ==
    IF ~slope_positive THEN Smallest(sizes)
    ELSE IF \E N \in sizes : Plateaued(N, plateau_fraction, Smallest(sizes))
    THEN Smallest({N \in sizes : Plateaued(N, plateau_fraction, Smallest(sizes))})
    ELSE Largest(sizes)

\* C24: for 0 <= plateau_fraction <= 1, N* is the smallest aggregated N when
\* slope <= 0; when slope > 0 it is the smallest aggregated N with
\* N * plateau_fraction^2 >= N_min, and the largest aggregated N if there is
\* none; the intercept and the magnitude of the slope do not enter.
C24_NStarBySlopeSign ==
    fn_call.op = "estimate_n_star" =>
        fn_result = NStarBySign(Items(fn_call.n_values),
                                RLess(Frac(0, 1), fn_call.slope), fn_call.plateau_fraction)

\* slope 3 and intercept 0.10 over N = [1, 4, 10] with plateau fraction 0.5:
\* N = 4 is the smallest size with N / 4 >= 1
C24_Witness ==
    /\ fn_call.op = "estimate_n_star"
    /\ fn_call.n_values = <<1, 4, 10>>
    /\ fn_call.intercept = Frac(1, 10) /\ fn_call.slope = Frac(3, 1)
    /\ fn_call.plateau_fraction = Frac(1, 2)
    /\ fn_result = 4

\* a <= b as Python compares floats: false when either is NaN
FloatLeq(a, b) == a # NaN /\ b # NaN /\ RLeq(a, b)

\* C29 as stated: for every retained stability record the position-matched
\* 'wasserstein' value is less than or equal to the 'mae' value.
C29_WassersteinLeqMae ==
    (fn_call.op = "compare_scores" /\ fn_result.retained) =>
        FloatLeq(fn_result.wasserstein, fn_result.mae)

\* C29 amended: a record retained with at least one valid plan has
\* wasserstein <= mae in exact arithmetic; a record retained with no valid
\* plan, which takes min_valid <= 0, has NaN for both.
C29_WassersteinLeqMaeWhenValid ==
    (fn_call.op = "compare_scores" /\ fn_result.retained) =>
        IF fn_result.valid_plans >= 1
        THEN FloatLeq(fn_result.wasserstein, fn_result.mae)
        ELSE /\ fn_call.min_valid <= 0
             /\ fn_result.wasserstein = NaN
             /\ fn_result.mae = NaN

\* two test plans scored 0 and 1/2 under the sample and 1/2 and 0 under the
\* full population: the sorted pairing closes the gap the pairing by plan has
C29_Witness ==
    /\ fn_call.op = "compare_scores"
    /\ fn_call.sample_scores = <<Frac(0, 1), Frac(1, 2)>>
    /\ fn_call.full_scores = <<Frac(1, 2), Frac(0, 1)>>
    /\ fn_result.retained
    /\ fn_result.mae = Frac(1, 2)
    /\ fn_result.wasserstein = Frac(0, 1)

\* C30: two normalized 7-tuples produced by constraint_key that differ in at
\* least one field, an absent field against an empty text included, are
\* mapped by constraint_key_to_str to different key strings.
C30_KeyStrInjective ==
    (fn_call.op = "constraint_key_to_str" /\ fn_call.first # fn_call.second) =>
        fn_result[1] # fn_result[2]

\* step 3 on the same plans: the frame, its reference and its scores
Step3Scored(plan_constraints_df, reference) ==
    [reference |-> reference,
     plan_constraints_df |-> plan_constraints_df,
     scores |-> score_plan_constraints_df(Vectors(plan_constraints_df), reference)]

Step3Referenced(context, plan_constraints_df) ==
    Step3Scored(plan_constraints_df,
                build_reference_from_plan_constraints(Vectors(plan_constraints_df), context.constraint_lookup,
                                                      context.directions, context.weights))

Step3With(plans, aliases, context) ==
    Step3Referenced(context, build_plan_constraints_df(plans, context.constraint_lookup, aliases,
                                                        context.protocol_structure_map))

Step3(plans, constraints, aliases) == Step3With(plans, aliases, build_constraint_context(constraints))

\* the two outcomes agree: reference, vectors and the score of every plan
SameScoring(step2, step3) ==
    /\ step2.reference.constraint_meta = step3.reference.constraint_meta
    /\ step2.reference.distributions = step3.reference.distributions
    /\ step2.reference.directions = step3.reference.directions
    /\ step2.reference.weights = step3.reference.weights
    /\ Len(step2.plan_scores_df) = Len(step3.plan_constraints_df)
    /\ \A i \in 1..Len(step2.plan_scores_df) :
           /\ step2.plan_scores_df[i].plan_id = step3.plan_constraints_df[i].plan_id
           /\ step2.plan_scores_df[i].plan_constraints = step3.plan_constraints_df[i].plan_constraints
           /\ step2.plan_scores_df[i].plan_score = step3.scores[i]

\* C28: for the same plans, constraints and alias map, build_population_reference
\* (step 2) and the chain build_constraint_context, build_plan_constraints_df,
\* build_reference_from_plan_constraints, score_plan_constraints_df (step 3)
\* give the same distributions, directions and weights, and the same score,
\* or absence of score, for every plan.
C28_Step2EqualsStep3 ==
    fn_call.op = "build_population_reference" =>
        SameScoring(fn_result, Step3(fn_call.plans, fn_call.constraints, fn_call.alias_map))

\* a protocol with a weighted and an unweighted constraint: plans reporting
\* both, one plan with a score and one without, a distribution of two values
C28_Witness ==
    /\ fn_call.op = "build_population_reference"
    /\ Len(fn_result.reference.weights) < Len(fn_result.reference.directions)
    /\ Len(fn_result.reference.weights) > 0
    /\ \E i \in 1..Len(fn_result.plan_scores_df) : fn_result.plan_scores_df[i].plan_score = NoScore
    /\ \E i \in 1..Len(fn_result.plan_scores_df) : fn_result.plan_scores_df[i].plan_score # NoScore
    /\ \E i \in 1..Len(fn_result.reference.distributions) :
           Len(fn_result.reference.distributions[i][2]) >= 2

\* how many of the plan vectors report value v for the key
ReportedCount(plan_vectors, key_str, v) ==
    Cardinality({i \in 1..Len(plan_vectors) :
        DictHas(plan_vectors[i], key_str) /\ DictGet(plan_vectors[i], key_str) = v})

\* how many positions of the array hold v
ArrayCount(values, v) == Cardinality({i \in 1..Len(values) : values[i] = v})

\* the array of a key of `distributions`, empty when the key is absent
ArrayOf(distributions, key_str) ==
    IF DictHas(distributions, key_str) THEN DictGet(distributions, key_str) ELSE << >>

DistributionsAsStated(call, distributions) ==
    /\ \A i \in 1..Len(distributions) :
           /\ DictHas(call.constraint_lookup, distributions[i][1])
           /\ distributions[i][2] # << >>
           /\ \A k \in 1..(Len(distributions[i][2]) - 1) : distributions[i][2][k] <= distributions[i][2][k + 1]
           /\ \A j \in 1..Len(distributions) : distributions[j][1] = distributions[i][1] => j = i
    /\ \A i \in 1..Len(call.constraint_lookup) : \A v \in Values :
           ArrayCount(ArrayOf(distributions, call.constraint_lookup[i][1]), v)
               = ReportedCount(call.plan_vectors, call.constraint_lookup[i][1], v)
    /\ \A i \in 1..Len(distributions) : \A k \in 1..Len(distributions[i][2]) : distributions[i][2][k] \in Values

\* C21: in every Reference built from plan vectors, each key of
\* `distributions` is a key of the constraint index, its array is non-empty
\* and ascending and holds exactly the values the input plans report for the
\* key, with multiplicity; index keys no plan reports are absent.
C21_ReferenceDistributions ==
    fn_call.op = "build_reference_from_plan_constraints" =>
        DistributionsAsStated(fn_call, fn_result.distributions)

\* plans reporting 30, 10 and 10 for the first constraint, one of them also a
\* foreign key, and nothing for the second: one ascending array, no second key
C21_Witness ==
    /\ fn_call.op = "build_reference_from_plan_constraints"
    /\ fn_call.plan_vectors = <<PlanVector(30, 0, 0, FALSE), PlanVector(10, 0, 20, FALSE), PlanVector(10, 0, 20, FALSE)>>
    /\ Len(fn_call.constraint_lookup) = 2
    /\ Len(fn_result.distributions) = 1
    /\ fn_result.distributions[1][2] = <<10, 10, 30>>

CallsInit ==
    /\ ScInit
    /\ EngineIdle
    /\ FnIdle
    /\ HeapIdle

CallsNext ==
    \/ CallBuildConstraintLookup
    \/ CallResolveStructure
    \/ CallNormalizeText
    \/ CallExtractPlanConstraints
    \/ CallSelectProtocolConstraints
    \/ CallEstimateNStar
    \/ CallBuildReference
    \/ CallCompareScores
    \/ CallConstraintKeyToStr
    \/ CallBuildPopulationReference

SpecCalls == CallsInit /\ [][CallsNext]_vars

----------------------------------------------------------------------------
(* References as objects: what build_reference_from_plan_constraints *)
(* allocates, what it shares and what it writes                       *)

\* most plans in one sample, most References alive at once
MaxDraw == 2
MaxRefs == 2

\* the context of the protocol and the identities of its three dicts
HeapContext == build_constraint_context(<<PtvHigher1, CordLower2>>)
LookupId == 1
DirectionsId == 2
WeightsId == 3

\* the plan vectors of the protocol's plans
HeapVector(ptv, cord) ==
    (IF ptv = 0 THEN << >> ELSE <<<<LookupKeys(HeapContext.constraint_lookup)[1], ptv>>>>)
        \o (IF cord = 0 THEN << >> ELSE <<<<LookupKeys(HeapContext.constraint_lookup)[2], cord>>>>)
HeapPopulations ==
    {<<HeapVector(10, 20), HeapVector(30, 0)>>,
     <<HeapVector(30, 0), HeapVector(20, 30)>>,
     <<HeapVector(20, 30), HeapVector(20, 30)>>}

\* the objects before the first Reference is built
RefsInit ==
    /\ ScInit
    /\ EngineIdle
    /\ FnIdle
    /\ \E population \in HeapPopulations :
           /\ heap = <<HeapContext.constraint_lookup, HeapContext.directions, HeapContext.weights>> \o population
           /\ heap_plans = AsList([i \in 1..Len(population) |-> WeightsId + i])
    /\ references = << >>
    /\ scoring = NoScoring

\* mutant: the arrays of a new Reference take the place of the newest objects
ReusedIds(objects, n) == AsList([i \in 1..n |-> Len(objects) - n + i])

\* np.sort(np.asarray(values, dtype=float)): a new array for every key
FreshIds(objects, n) == AsList([i \in 1..n |-> Len(objects) + i])

RECURSIVE Store(_, _, _, _)
\* the object store with the values written at the given identities
Store(objects, ids, values, i) ==
    IF i > Len(ids) THEN objects
    ELSE IF ids[i] <= Len(objects)
    THEN Store([objects EXCEPT ![ids[i]] = values[i]], ids, values, i + 1)
    ELSE Store(Append(objects, values[i]), ids, values, i + 1)

\* the returned dict: the arguments by identity, the new arrays by identity
ReferenceObject(built, ids) ==
    [constraint_meta |-> LookupId,
     distributions |-> AsList([i \in 1..Len(ids) |-> <<built.distributions[i][1], ids[i]>>]),
     directions |-> DirectionsId,
     weights |-> WeightsId]

BuildWith(built, ids) ==
    /\ heap' = Store(heap, ids, AsList([i \in 1..Len(ids) |-> built.distributions[i][2]]), 1)
    /\ references' = Append(references, ReferenceObject(built, ids))

BuildFrom(built) == BuildWith(built, FreshIds(heap, Len(built.distributions)))

\* train_df.iloc[sample_idx]["plan_constraints"]: the drawn plan vectors
SampledVectors(sample_idx) == AsList([j \in 1..Len(sample_idx) |-> heap[heap_plans[sample_idx[j]]]])

\* build_reference_from_plan_constraints on a subset or bootstrap sample
HeapBuildReference ==
    /\ heap # << >>
    /\ Len(references) < MaxRefs
    /\ \E sample_idx \in SeqsUpTo(1..Len(heap_plans), MaxDraw) :
           BuildFrom(build_reference_from_plan_constraints(SampledVectors(sample_idx), heap[LookupId],
                                                           heap[DirectionsId], heap[WeightsId]))
    /\ UNCHANGED <<sc_vars, eng_vars, fn_vars, heap_plans, scoring>>

\* the distributions of a Reference, read through the object store
DistributionsOf(objects, reference) ==
    AsList([i \in 1..Len(reference.distributions) |->
        <<reference.distributions[i][1], objects[reference.distributions[i][2]]>>])

\* compute_plan_score of a plan under a Reference, both read through the store
ScoreIn(objects, reference, plan_id) ==
    compute_plan_score(objects[plan_id], DistributionsOf(objects, reference),
                       objects[reference.directions], objects[reference.weights])

\* score_plan_constraints_df row: one plan scored under one of the References
HeapScore ==
    /\ \E r \in 1..Len(references), p \in 1..Len(heap_plans) :
           scoring' = [reference |-> r, plan |-> p, score |-> ScoreIn(heap, references[r], heap_plans[p])]
    /\ UNCHANGED <<sc_vars, eng_vars, fn_vars, heap, heap_plans, references>>

RefsNext ==
    \/ HeapBuildReference
    \/ HeapScore

SpecRefs == RefsInit /\ [][RefsNext]_vars

\* the identities of the arrays of a Reference
ArrayIds(reference) == {reference.distributions[i][2] : i \in 1..Len(reference.distributions)}

\* the distributions of a Reference are its own: no array is an argument of
\* the build and no array belongs to two References
OwnDistributions ==
    /\ \A r \in 1..Len(references) :
           ArrayIds(references[r]) \cap ({LookupId, DirectionsId, WeightsId} \cup Items(heap_plans)) = {}
    /\ \A r, q \in 1..Len(references) : r # q => ArrayIds(references[r]) \cap ArrayIds(references[q]) = {}

\* a step writes no object that exists: the plan vectors, the constraint
\* index, the directions, the weights and the arrays of earlier References
\* stay as they are, and so do the scores obtained from earlier References
NothingOverwritten ==
    /\ Len(heap') >= Len(heap)
    /\ \A id \in 1..Len(heap) : heap'[id] = heap[id]
    /\ heap_plans' = heap_plans
    /\ \A r \in 1..Len(references) :
           /\ references'[r] = references[r]
           /\ \A p \in 1..Len(heap_plans) :
                  ScoreIn(heap', references'[r], heap_plans[p]) = ScoreIn(heap, references[r], heap_plans[p])

\* C14: build_reference_from_plan_constraints, on any subset or bootstrap
\* sample of the plans, leaves the plan vectors, the constraint index, the
\* directions and the weights unchanged; the distributions of the returned
\* Reference are arrays of its own, so building or using one Reference never
\* changes the scores obtained from another.
C14_ReferencePure == []OwnDistributions /\ [][NothingOverwritten]_vars

\* two References built from different samples hold different distributions,
\* and a plan has been scored under the first one
C14_Witness ==
    /\ Len(references) = 2
    /\ DistributionsOf(heap, references[1]) # DistributionsOf(heap, references[2])
    /\ ArrayIds(references[1]) # {} /\ ArrayIds(references[2]) # {}
    /\ scoring.reference = 1

====
